---- MODULE Spec2Model ----
(***************************************************************************)
(* Business-hours calendar engine of date-fns: isWithinBusinessHours,      *)
(* businessHoursInInterval and addBusinessHours over the shared helpers of *)
(* src/_lib/businessHours.                                                 *)
(*                                                                         *)
(* A Date value is a record [nan, day, ms]: nan is TRUE for Invalid Date;  *)
(* day is the local calendar day counted from a Sunday (day 0 is Sunday    *)
(* 1 Jan 2023, day 1 is Monday 2 Jan 2023); ms is the local time of day in *)
(* milliseconds.  Local days are 24 hours long (no daylight-saving shift). *)
(* The hour totals of businessHoursInInterval are IEEE-754 doubles, with   *)
(* the division and the additions rounded as the language rounds them.     *)
(* The hour amounts of addBusinessHours are kept as exact millisecond      *)
(* counts (hours * 3600000); the amounts drawn are exact in doubles.       *)
(***************************************************************************)
EXTENDS Integers, Sequences, FiniteSets, TLC

(***************************************************************************)
(* Units                                                                   *)
(***************************************************************************)
MsPerMinute == 60000

MsPerHour == 3600000

MsPerDay == 24 * MsPerHour

(***************************************************************************)
(* Date values and the date-fns primitives the engine calls                *)
(***************************************************************************)
DateOf(d, t) == [nan |-> FALSE, day |-> d, ms |-> t]

InvalidDate == [nan |-> TRUE, day |-> 0, ms |-> 0]

\* new Date(y, m, d, hh, mm, ss, ms) for a day index and a time of day
At(d, hh, mm, ss, mmm) == DateOf(d, ((hh * 60 + mm) * 60 + ss) * 1000 + mmm)

\* isNaN(date.getTime())
isNaNDate(d) == d.nan

\* date.getDay(): 0 = Sunday .. 6 = Saturday
getDay(d) == d.day % 7

\* date.getHours() and date.getMinutes()
getHours(d) == d.ms \div MsPerHour

getMinutes(d) == (d.ms % MsPerHour) \div MsPerMinute

\* date.setHours(h, m, 0, 0) on a valid date
setHours(d, h, m) == [d EXCEPT !.ms = (h * 60 + m) * MsPerMinute]

\* toDate(argument): a new Date with the argument's time value
toDate(d) == d

\* constructFrom(date, value): a new Date with the given time value
constructFrom(v) == v

\* a.getTime() - b.getTime() for two valid dates
timeDiff(x, y) == (x.day - y.day) * MsPerDay + (x.ms - y.ms)

\* a.getTime() === b.getTime()
sameTime(x, y) == ~x.nan /\ ~y.nan /\ x.day = y.day /\ x.ms = y.ms

isBefore(x, y) ==
  ~x.nan /\ ~y.nan /\ (x.day < y.day \/ (x.day = y.day /\ x.ms < y.ms))

isAfter(x, y) == isBefore(y, x)

\* isSameDay: both start-of-day time values are equal (NaN equals nothing)
isSameDay(x, y) == ~x.nan /\ ~y.nan /\ x.day = y.day

startOfDay(d) == IF d.nan THEN d ELSE [d EXCEPT !.ms = 0]

addDays(d, n) == IF d.nan THEN d ELSE [d EXCEPT !.day = d.day + n]

\* addMinutes with the amount given in milliseconds (amount * 60000); a
\* rounding excess of the amount is lost in the double sum with the time value
addMinutes(d, amountMs) ==
  IF d.nan THEN d
  ELSE LET t == d.ms + amountMs
       IN  DateOf(d.day + (t \div MsPerDay), t % MsPerDay)

\* max([x, y]) and min([x, y]) of date-fns
max(x, y) == IF x.nan \/ y.nan THEN InvalidDate ELSE IF isBefore(x, y) THEN y ELSE x

min(x, y) == IF x.nan \/ y.nan THEN InvalidDate ELSE IF isBefore(y, x) THEN y ELSE x

(***************************************************************************)
(* Raw option values.  A field is [kind, ...] with kind "undefined" for an *)
(* omitted field, "other" for a value of the wrong JavaScript type.        *)
(* A time string is a sequence of one-character strings.  A JavaScript     *)
(* number in workingDays is [int, v]: int is Number.isInteger, v its floor.*)
(***************************************************************************)
Undefined == [kind |-> "undefined", v |-> <<>>]

Str(chars) == [kind |-> "string", v |-> chars]

Arr(items) == [kind |-> "array", v |-> items]

Other == [kind |-> "other", v |-> <<>>]

Num(n) == [int |-> TRUE, v |-> n]

Frac(n) == [int |-> FALSE, v |-> n]

NoError == [class |-> "none", msg |-> ""]

Err(class, msg) == [class |-> class, msg |-> msg]

(***************************************************************************)
(* parseTimeString                                                         *)
(***************************************************************************)
Digits == {"0", "1", "2", "3", "4", "5", "6", "7", "8", "9"}

DigitVal(c) ==
  CASE c = "0" -> 0 [] c = "1" -> 1 [] c = "2" -> 2 [] c = "3" -> 3
    [] c = "4" -> 4 [] c = "5" -> 5 [] c = "6" -> 6 [] c = "7" -> 7
    [] c = "8" -> 8 [] c = "9" -> 9

\* String.prototype.split(":")
RECURSIVE split(_)
split(s) ==
  IF \E i \in 1..Len(s) : s[i] = ":"
  THEN LET i == CHOOSE k \in 1..Len(s) :
                  s[k] = ":" /\ \A j \in 1..(k - 1) : s[j] # ":"
       IN  <<SubSeq(s, 1, i - 1)>> \o split(SubSeq(s, i + 1, Len(s)))
  ELSE <<s>>

RECURSIVE skipSpace(_)
skipSpace(s) == IF s # <<>> /\ Head(s) = " " THEN skipSpace(Tail(s)) ELSE s

RECURSIVE digitPrefix(_, _)
digitPrefix(s, acc) ==
  IF s # <<>> /\ Head(s) \in Digits
  THEN digitPrefix(Tail(s), acc * 10 + DigitVal(Head(s)))
  ELSE acc

\* parseInt(s, 10): leading blanks, an optional sign, then the longest run
\* of digits; NaN when there is no digit
parseInt(str) ==
  LET s == skipSpace(str)
      neg == s # <<>> /\ Head(s) = "-"
      body == IF s # <<>> /\ Head(s) \in {"-", "+"} THEN Tail(s) ELSE s
  IN  IF body = <<>> \/ Head(body) \notin Digits
      THEN [nan |-> TRUE, v |-> 0]
      ELSE [nan |-> FALSE,
            v |-> IF neg THEN 0 - digitPrefix(body, 0) ELSE digitPrefix(body, 0)]

parseTimeString(time) ==
  IF time.kind # "string"
  THEN [error |-> Err("TypeError", "Time must be a string"), hours |-> 0, minutes |-> 0]
  ELSE LET parts == split(time.v)
       IN  IF Len(parts) # 2
           THEN [error |-> Err("RangeError", "Invalid time format"),
                 hours |-> 0, minutes |-> 0]
           ELSE LET hours == parseInt(parts[1])
                    minutes == parseInt(parts[2])
                IN  IF hours.nan \/ minutes.nan \/ hours.v < 0 \/ hours.v > 23
                       \/ minutes.v < 0 \/ minutes.v > 59
                    THEN [error |-> Err("RangeError", "Invalid time value"),
                          hours |-> 0, minutes |-> 0]
                    ELSE [error |-> NoError, hours |-> hours.v, minutes |-> minutes.v]

(***************************************************************************)
(* Calendar predicates                                                     *)
(***************************************************************************)
isHolidayExactTime(date, holidays) ==
  \E i \in 1..Len(holidays) : sameTime(date, holidays[i])

isHoliday(date, holidays) ==
  \E i \in 1..Len(holidays) : isSameDay(date, holidays[i])

isWorkingDay(date, workingDays) ==
  \E i \in 1..Len(workingDays) :
    workingDays[i].int /\ workingDays[i].v = getDay(date)

(***************************************************************************)
(* normalizeBusinessHoursOptions                                           *)
(***************************************************************************)
DefaultStartOfDay == Str(<<"0", "9", ":", "0", "0">>)

DefaultEndOfDay == Str(<<"1", "7", ":", "0", "0">>)

DefaultWorkingDays == Arr(<<Num(1), Num(2), Num(3), Num(4), Num(5)>>)

DefaultHolidays == Arr(<<>>)

\* value ?? fallback
Coalesce(value, fallback) == IF value.kind = "undefined" THEN fallback ELSE value

Failed(error) ==
  [error |-> error, startHour |-> 0, startMinute |-> 0, endHour |-> 0,
   endMinute |-> 0, workingDays |-> <<>>, holidays |-> <<>>]

\* the normalizer with the holidays checked before the working days
normalizeHolidaysFirst(options) ==
  LET startOfDayOpt == Coalesce(options.startOfDay, DefaultStartOfDay)
      endOfDayOpt == Coalesce(options.endOfDay, DefaultEndOfDay)
      workingDays == Coalesce(options.workingDays, DefaultWorkingDays)
      holidays == Coalesce(options.holidays, DefaultHolidays)
      start == parseTimeString(startOfDayOpt)
      end == parseTimeString(endOfDayOpt)
  IN  IF start.error # NoError THEN Failed(start.error)
      ELSE IF end.error # NoError THEN Failed(end.error)
      ELSE IF end.hours < start.hours
              \/ (end.hours = start.hours /\ end.minutes <= start.minutes)
      THEN Failed(Err("RangeError", "End of day must be after start of day"))
      ELSE IF holidays.kind # "array"
      THEN Failed(Err("TypeError", "holidays must be an array"))
      ELSE IF workingDays.kind # "array" \/ Len(workingDays.v) = 0
      THEN Failed(Err("RangeError", "workingDays must be a non-empty array"))
      ELSE IF \E i \in 1..Len(workingDays.v) :
                ~workingDays.v[i].int \/ workingDays.v[i].v < 0 \/ workingDays.v[i].v > 6
      THEN Failed(Err("RangeError", "workingDays must contain integers between 0 and 6"))
      ELSE [error |-> NoError,
            startHour |-> start.hours, startMinute |-> start.minutes,
            endHour |-> end.hours, endMinute |-> end.minutes,
            workingDays |-> workingDays.v, holidays |-> holidays.v]

\* the normalizer with end.minutes < start.minutes at line 104
normalizeAllowingEqual(options) ==
  LET startOfDayOpt == Coalesce(options.startOfDay, DefaultStartOfDay)
      endOfDayOpt == Coalesce(options.endOfDay, DefaultEndOfDay)
      workingDays == Coalesce(options.workingDays, DefaultWorkingDays)
      holidays == Coalesce(options.holidays, DefaultHolidays)
      start == parseTimeString(startOfDayOpt)
      end == parseTimeString(endOfDayOpt)
  IN  IF start.error # NoError THEN Failed(start.error)
      ELSE IF end.error # NoError THEN Failed(end.error)
      ELSE IF end.hours < start.hours
              \/ (end.hours = start.hours /\ end.minutes < start.minutes)
      THEN Failed(Err("RangeError", "End of day must be after start of day"))
      ELSE IF workingDays.kind # "array" \/ Len(workingDays.v) = 0
      THEN Failed(Err("RangeError", "workingDays must be a non-empty array"))
      ELSE IF \E i \in 1..Len(workingDays.v) :
                ~workingDays.v[i].int \/ workingDays.v[i].v < 0 \/ workingDays.v[i].v > 6
      THEN Failed(Err("RangeError", "workingDays must contain integers between 0 and 6"))
      ELSE IF holidays.kind # "array"
      THEN Failed(Err("TypeError", "holidays must be an array"))
      ELSE [error |-> NoError,
            startHour |-> start.hours, startMinute |-> start.minutes,
            endHour |-> end.hours, endMinute |-> end.minutes,
            workingDays |-> workingDays.v, holidays |-> holidays.v]

normalizeBusinessHoursOptions(options) ==
  LET startOfDayOpt == Coalesce(options.startOfDay, DefaultStartOfDay)
      endOfDayOpt == Coalesce(options.endOfDay, DefaultEndOfDay)
      workingDays == Coalesce(options.workingDays, DefaultWorkingDays)
      holidays == Coalesce(options.holidays, DefaultHolidays)
      start == parseTimeString(startOfDayOpt)
      end == parseTimeString(endOfDayOpt)
  IN  IF start.error # NoError THEN Failed(start.error)
      ELSE IF end.error # NoError THEN Failed(end.error)
      ELSE IF end.hours < start.hours
              \/ (end.hours = start.hours /\ end.minutes <= start.minutes)
      THEN Failed(Err("RangeError", "End of day must be after start of day"))
      ELSE IF workingDays.kind # "array" \/ Len(workingDays.v) = 0
      THEN Failed(Err("RangeError", "workingDays must be a non-empty array"))
      ELSE IF \E i \in 1..Len(workingDays.v) :
                ~workingDays.v[i].int \/ workingDays.v[i].v < 0 \/ workingDays.v[i].v > 6
      THEN Failed(Err("RangeError", "workingDays must contain integers between 0 and 6"))
      ELSE IF holidays.kind # "array"
      THEN Failed(Err("TypeError", "holidays must be an array"))
      ELSE [error |-> NoError,
            startHour |-> start.hours, startMinute |-> start.minutes,
            endHour |-> end.hours, endMinute |-> end.minutes,
            workingDays |-> workingDays.v, holidays |-> holidays.v]

(***************************************************************************)
(* Work window of a day: null (absent) on a non-working day or a holiday   *)
(***************************************************************************)
Null == [null |-> TRUE, date |-> InvalidDate]

Some(d) == [null |-> FALSE, date |-> d]

getWorkingHoursStart(date, normalized) ==
  IF ~isWorkingDay(date, normalized.workingDays)
     \/ isHoliday(date, normalized.holidays)
  THEN Null
  ELSE Some(setHours(date, normalized.startHour, normalized.startMinute))

getWorkingHoursEnd(date, normalized) ==
  IF ~isWorkingDay(date, normalized.workingDays)
     \/ isHoliday(date, normalized.holidays)
  THEN Null
  ELSE Some(setHours(date, normalized.endHour, normalized.endMinute))

(***************************************************************************)
(* What one call of an entry point did with the configuration: normalize   *)
(* counts the calls of normalizeBusinessHoursOptions, calendar tells that  *)
(* a weekday, holiday or work-window evaluation ran, early that one ran    *)
(* before the first normalization.                                         *)
(***************************************************************************)
CallSummary(normalize, calendar, early) ==
  [normalize |-> normalize, calendar |-> calendar, early |-> early]

NoCalls == CallSummary(0, FALSE, FALSE)

(***************************************************************************)
(* isWithinBusinessHours                                                   *)
(***************************************************************************)
Returned(value) == [kind |-> "return", error |-> NoError, value |-> value]

Thrown(error, value) == [kind |-> "throw", error |-> error, value |-> value]

NotCalled(value) == [kind |-> "none", error |-> NoError, value |-> value]

\* the comparison of line 89, with <= at the end of the window
inBusinessMinutesClosed(currentMinutes, startMinutes, endMinutes) ==
  currentMinutes >= startMinutes /\ currentMinutes <= endMinutes

\* line 89: the minute of day is in the half-open window
inBusinessMinutes(currentMinutes, startMinutes, endMinutes) ==
  currentMinutes >= startMinutes /\ currentMinutes < endMinutes

\* lines 71-89: the checks made on a valid date with a normalized calendar
withinChecks(date_, normalized) ==
  IF ~isWorkingDay(date_, normalized.workingDays) THEN Returned(FALSE)
  ELSE IF isHoliday(date_, normalized.holidays) THEN Returned(FALSE)
  ELSE LET currentMinutes == getHours(date_) * 60 + getMinutes(date_)
           startMinutes == normalized.startHour * 60 + normalized.startMinute
           endMinutes == normalized.endHour * 60 + normalized.endMinute
       IN  Returned(inBusinessMinutes(currentMinutes, startMinutes, endMinutes))

\* isWithinBusinessHours with the options normalized before the date is checked
isWithinBusinessHoursNormalizeFirst(date, options) ==
  LET date_ == toDate(date)
      normalized == normalizeBusinessHoursOptions(options)
  IN  IF normalized.error # NoError THEN Thrown(normalized.error, FALSE)
      ELSE IF isNaNDate(date_) THEN Returned(FALSE)
      ELSE withinChecks(date_, normalized)

isWithinBusinessHours(date, options) ==
  LET date_ == toDate(date)
  IN  IF isNaNDate(date_) THEN Returned(FALSE)
      ELSE LET normalized == normalizeBusinessHoursOptions(options)
           IN  IF normalized.error # NoError THEN Thrown(normalized.error, FALSE)
               ELSE withinChecks(date_, normalized)

\* lines 62-72: the calls isWithinBusinessHours makes, in their order
isWithinBusinessHoursCalls(date, options) ==
  LET date_ == toDate(date)
  IN  IF isNaNDate(date_) THEN NoCalls
      ELSE IF normalizeBusinessHoursOptions(options).error # NoError
      THEN CallSummary(1, FALSE, FALSE)
      ELSE CallSummary(1, TRUE, FALSE)

(***************************************************************************)
(* JavaScript numbers that are not negative, as IEEE-754 doubles:          *)
(* [zero, e, m] is 0 when zero is TRUE and otherwise 1.b2...b53 * 2^e with *)
(* m the 53 bits of the significand, most significant first.  Arithmetic   *)
(* rounds to nearest, ties to even.  Long numbers are handled in limbs of  *)
(* 9 bits.                                                                 *)
(***************************************************************************)
Zeros(n) == [i \in 1..n |-> 0]

FloatZero == [zero |-> TRUE, e |-> 0, m |-> Zeros(53)]

Pow2Table == <<1, 2, 4, 8, 16, 32, 64, 128, 256, 512>>

pow2(k) == Pow2Table[k + 1]

\* bit i (1 is the most significant) of a number given in limbs of 9 bits
bitOf(limbs, i) == (limbs[((i - 1) \div 9) + 1] \div pow2(8 - ((i - 1) % 9))) % 2

bitsOfLimbs(limbs) == [i \in 1..(9 * Len(limbs)) |-> bitOf(limbs, i)]

limbOfBits(bits, j) ==
  LET k == 9 * (j - 1)
  IN  bits[k + 1] * 256 + bits[k + 2] * 128 + bits[k + 3] * 64 + bits[k + 4] * 32
      + bits[k + 5] * 16 + bits[k + 6] * 8 + bits[k + 7] * 4 + bits[k + 8] * 2
      + bits[k + 9]

limbsOfBits(bits) == [j \in 1..(Len(bits) \div 9) |-> limbOfBits(bits, j)]

\* bits + 1; carry is 1 when every bit was 1
increment(bits) ==
  IF \A i \in 1..Len(bits) : bits[i] = 1
  THEN [bits |-> Zeros(Len(bits)), carry |-> 1]
  ELSE LET k == CHOOSE i \in 1..Len(bits) :
                  bits[i] = 0 /\ \A j \in (i + 1)..Len(bits) : bits[j] = 1
       IN  [bits |-> [i \in 1..Len(bits) |->
                        IF i < k THEN bits[i] ELSE IF i = k THEN 1 ELSE 0],
            carry |-> 0]

\* the double nearest to the number 1.b2b3... * 2^e whose bits are given
\* (the first bit is 1; sticky tells of a non-zero rest below the bits)
roundBits(bits, sticky, e) ==
  IF Len(bits) <= 53
  THEN [zero |-> FALSE, e |-> e, m |-> bits \o Zeros(53 - Len(bits))]
  ELSE LET mant == SubSeq(bits, 1, 53)
           below == sticky \/ \E i \in 55..Len(bits) : bits[i] = 1
           up == bits[54] = 1 /\ (below \/ mant[53] = 1)
           inc == increment(mant)
       IN  IF ~up THEN [zero |-> FALSE, e |-> e, m |-> mant]
           ELSE IF inc.carry = 1
           THEN [zero |-> FALSE, e |-> e + 1, m |-> <<1>> \o Zeros(52)]
           ELSE [zero |-> FALSE, e |-> e, m |-> inc.bits]

\* k more limbs of the quotient r / den, and the remainder left
RECURSIVE divDigits(_, _, _)
divDigits(r, den, k) ==
  IF k = 0 THEN [digits |-> <<>>, rem |-> r]
  ELSE LET rest == divDigits((r * 512) % den, den, k - 1)
       IN  [digits |-> <<(r * 512) \div den>> \o rest.digits, rem |-> rest.rem]

\* num / den in doubles, for 0 <= num < 512 * den and den < 2^22
floatDiv(num, den) ==
  IF num = 0 THEN FloatZero
  ELSE LET dd == divDigits(num % den, den, 9)
           bits == bitsOfLimbs(<<num \div den>> \o dd.digits)
           lead == CHOOSE i \in 1..Len(bits) :
                     bits[i] = 1 /\ \A j \in 1..(i - 1) : bits[j] = 0
       IN  roundBits(SubSeq(bits, lead, Len(bits)), dd.rem # 0, 9 - lead)

RECURSIVE addLimbs(_, _, _)
addLimbs(xl, yl, j) ==
  IF j > Len(xl) THEN [limbs |-> <<>>, carry |-> 0]
  ELSE LET rest == addLimbs(xl, yl, j + 1)
           sum == xl[j] + yl[j] + rest.carry
       IN  [limbs |-> <<sum % 512>> \o rest.limbs, carry |-> sum \div 512]

\* x + y in doubles
floatAdd(x, y) ==
  IF x.zero THEN y
  ELSE IF y.zero THEN x
  ELSE LET hi == IF x.e >= y.e THEN x ELSE y
           lo == IF x.e >= y.e THEN y ELSE x
           d == hi.e - lo.e
       IN  IF d > 55 THEN hi
           ELSE LET pad == (9 - ((53 + d) % 9)) % 9
                    sum == addLimbs(limbsOfBits(Zeros(pad) \o hi.m \o Zeros(d)),
                                    limbsOfBits(Zeros(pad + d) \o lo.m), 1)
                    bits == <<sum.carry>> \o bitsOfLimbs(sum.limbs)
                    lead == CHOOSE i \in 1..Len(bits) :
                              bits[i] = 1 /\ \A j \in 1..(i - 1) : bits[j] = 0
                IN  roundBits(SubSeq(bits, lead, Len(bits)), FALSE,
                              hi.e + pad + 2 - lead)

(***************************************************************************)
(* businessHoursInInterval.  hours is totalHours, a double; ms is the sum  *)
(* of the milliseconds values of line 112 that went into it; days counts   *)
(* the passes of the day loop.                                             *)
(***************************************************************************)
Hours(hours, ms, days) == [hours |-> hours, ms |-> ms, days |-> days]

NoTotal == Hours(FloatZero, 0, 0)

\* the day pass with the overlap ended at the window end, not at min([end, workEnd])
intervalDayHoursToWindowEnd(currentDay, start, end, normalized) ==
  LET workStart == getWorkingHoursStart(currentDay, normalized)
      workEnd == getWorkingHoursEnd(currentDay, normalized)
  IN  IF ~workStart.null /\ ~workEnd.null
      THEN LET overlapStart == max(start, workStart.date)
               overlapEnd == workEnd.date
           IN  IF isBefore(overlapStart, overlapEnd) \/ sameTime(overlapStart, overlapEnd)
               THEN timeDiff(overlapEnd, overlapStart)
               ELSE 0
      ELSE 0

\* the day pass with the overlap started at the window start, not at max([start, workStart])
intervalDayHoursFromWindowStart(currentDay, start, end, normalized) ==
  LET workStart == getWorkingHoursStart(currentDay, normalized)
      workEnd == getWorkingHoursEnd(currentDay, normalized)
  IN  IF ~workStart.null /\ ~workEnd.null
      THEN LET overlapStart == workStart.date
               overlapEnd == min(end, workEnd.date)
           IN  IF isBefore(overlapStart, overlapEnd) \/ sameTime(overlapStart, overlapEnd)
               THEN timeDiff(overlapEnd, overlapStart)
               ELSE 0
      ELSE 0

\* lines 101-112, one pass of the day loop: the milliseconds of the day's
\* overlap, 0 when the pass adds nothing
intervalDayHours(currentDay, start, end, normalized) ==
  LET workStart == getWorkingHoursStart(currentDay, normalized)
      workEnd == getWorkingHoursEnd(currentDay, normalized)
  IN  IF ~workStart.null /\ ~workEnd.null
      THEN LET overlapStart == max(start, workStart.date)
               overlapEnd == min(end, workEnd.date)
           IN  IF isBefore(overlapStart, overlapEnd) \/ sameTime(overlapStart, overlapEnd)
               THEN timeDiff(overlapEnd, overlapStart)
               ELSE 0
      ELSE 0

\* the loop condition with the end day left out: isBefore(currentDay, endDay)
intervalLoopContinuesExclusive(currentDay, endDay) == isBefore(currentDay, endDay)

\* line 100: the loop runs through the end day inclusive
intervalLoopContinues(currentDay, endDay) == isBefore(currentDay, addDays(endDay, 1))

\* lines 95-121: the loop over the calendar days of the interval
RECURSIVE intervalDayLoop(_, _, _, _, _, _)
intervalDayLoop(currentDay, endDay, start, end, normalized, total) ==
  IF intervalLoopContinues(currentDay, endDay)
  THEN LET milliseconds == intervalDayHours(currentDay, start, end, normalized)
           hours == floatDiv(milliseconds, MsPerHour)
       IN  intervalDayLoop(addDays(currentDay, 1), endDay, start, end, normalized,
             Hours(floatAdd(total.hours, hours), total.ms + milliseconds,
                   total.days + 1))
  ELSE total

\* the interval checks with the end date checked before the start date
validateIntervalEndFirst(start, end) ==
  IF isNaNDate(end) THEN Err("RangeError", "End date is invalid")
  ELSE IF isNaNDate(start) THEN Err("RangeError", "Start date is invalid")
  ELSE IF isAfter(start, end)
  THEN Err("RangeError", "Start date must be before or equal to end date")
  ELSE NoError

\* lines 80-91: the checks of the interval, in order
validateInterval(start, end) ==
  IF isNaNDate(start) THEN Err("RangeError", "Start date is invalid")
  ELSE IF isNaNDate(end) THEN Err("RangeError", "End date is invalid")
  ELSE IF isAfter(start, end)
  THEN Err("RangeError", "Start date must be before or equal to end date")
  ELSE NoError

businessHoursInInterval(interval, options) ==
  LET start == toDate(interval.start)
      end == toDate(interval.end)
      invalid == validateInterval(start, end)
  IN  IF invalid # NoError THEN Thrown(invalid, NoTotal)
      ELSE LET normalized == normalizeBusinessHoursOptions(options)
           IN  IF normalized.error # NoError THEN Thrown(normalized.error, NoTotal)
               ELSE Returned(intervalDayLoop(startOfDay(start), startOfDay(end),
                                             start, end, normalized, NoTotal))

\* lines 80-101: the calls businessHoursInInterval makes, in their order;
\* the day loop runs at least once on a valid interval
businessHoursInIntervalCalls(interval, options) ==
  LET start == toDate(interval.start)
      end == toDate(interval.end)
  IN  IF validateInterval(start, end) # NoError THEN NoCalls
      ELSE IF normalizeBusinessHoursOptions(options).error # NoError
      THEN CallSummary(1, FALSE, FALSE)
      ELSE CallSummary(1, intervalLoopContinues(startOfDay(start), startOfDay(end)),
                       FALSE)

(***************************************************************************)
(* addBusinessHours.  The amount is [kind, ms, excess]: kind "finite" with *)
(* the amount in milliseconds (hours * 3600000), or "NaN", "Infinity",     *)
(* "-Infinity", "undefined".  excess is 1 when the double product          *)
(* amount * 60 of line 546 is rounded up, to a double just above the       *)
(* minutes of ms: the double nearest to 31/60, times 60, is                *)
(* 31.000000000000004.  remainingMinutes is [ms, excess]: the minutes in   *)
(* milliseconds (minutes * 60000) and the rounding excess above them, which *)
(* is far less than a millisecond.                                         *)
(***************************************************************************)
maxAttempts == 366

maxIterations == 10000

Finite(ms) == [kind |-> "finite", ms |-> ms, excess |-> 0]

\* a finite amount whose product with 60 is rounded up
FiniteRoundedUp(ms) == [kind |-> "finite", ms |-> ms, excess |-> 1]

NonNumber(kind) == [kind |-> kind, ms |-> 0, excess |-> 0]

Minutes(ms, excess) == [ms |-> ms, excess |-> excess]

NoMinutes == Minutes(0, 0)

\* lines 546-548: Math.abs(amount * 60)
minutesOf(amount) == Minutes(IF amount.ms < 0 THEN 0 - amount.ms ELSE amount.ms,
                             amount.excess)

\* remainingMinutes > 0
positive(remaining) == remaining.ms > 0 \/ remaining.excess > 0

\* availableMinutes >= remainingMinutes, the available minutes being whole
\* milliseconds
atLeast(availableMinutes, remaining) ==
  availableMinutes > remaining.ms
    \/ (availableMinutes = remaining.ms /\ remaining.excess = 0)

\* remainingMinutes - availableMinutes
minus(remaining, availableMinutes) ==
  Minutes(remaining.ms - availableMinutes, remaining.excess)

\* isNaN(amount) || !isFinite(amount)
invalidAmount(amount) == amount.kind # "finite"

Abs(n) == IF n < 0 THEN 0 - n ELSE n

Entry(kind, error, normalized) ==
  [kind |-> kind, error |-> error, normalized |-> normalized]

\* the entry without the zero-amount shortcut of lines 538-541
addEntryNoZeroCheck(dateValue, amount, options) ==
  IF isNaNDate(dateValue) THEN Entry("invalid", NoError, Failed(NoError))
  ELSE IF invalidAmount(amount) THEN Entry("invalid", NoError, Failed(NoError))
  ELSE LET normalized == normalizeBusinessHoursOptions(options)
       IN  IF normalized.error # NoError
           THEN Entry("throw", normalized.error, Failed(NoError))
           ELSE Entry("walk", NoError, normalized)

\* the entry with the options normalized before the date and the amount are checked
addEntryNormalizeFirst(dateValue, amount, options) ==
  LET normalized == normalizeBusinessHoursOptions(options)
  IN  IF normalized.error # NoError
      THEN Entry("throw", normalized.error, Failed(NoError))
      ELSE IF isNaNDate(dateValue) THEN Entry("invalid", NoError, Failed(NoError))
      ELSE IF invalidAmount(amount) THEN Entry("invalid", NoError, Failed(NoError))
      ELSE IF amount.ms = 0 THEN Entry("copy", NoError, Failed(NoError))
      ELSE Entry("walk", NoError, normalized)

\* lines 528-543: what the call does with its arguments before the walk
addEntry(dateValue, amount, options) ==
  IF isNaNDate(dateValue) THEN Entry("invalid", NoError, Failed(NoError))
  ELSE IF invalidAmount(amount) THEN Entry("invalid", NoError, Failed(NoError))
  ELSE IF amount.ms = 0 THEN Entry("copy", NoError, Failed(NoError))
  ELSE LET normalized == normalizeBusinessHoursOptions(options)
       IN  IF normalized.error # NoError
           THEN Entry("throw", normalized.error, Failed(NoError))
           ELSE Entry("walk", NoError, normalized)

\* the outcome of one pass of a loop: the new value of the date variable,
\* whether the loop is left (snap) or moveToWorkingTime is called (consume)
Pass(value, stop, remaining) == [date |-> value, stop |-> stop, remaining |-> remaining]

\* the step with the boundaries swapped: window end going forward, start going back
stepDaySwapped(value, dir, normalized) ==
  IF dir > 0
  THEN setHours(addDays(value, dir), normalized.endHour, normalized.endMinute)
  ELSE setHours(addDays(value, dir), normalized.startHour, normalized.startMinute)

\* lines 567-573: step one day in the direction of travel, to the window boundary
stepDay(value, dir, normalized) ==
  IF dir > 0
  THEN setHours(addDays(value, dir), normalized.startHour, normalized.startMinute)
  ELSE setHours(addDays(value, dir), normalized.endHour, normalized.endMinute)

\* the pass that takes the end of the window for working time when going forward
movePassClosedWindow(value, dir, normalized) ==
  IF ~isWorkingDay(value, normalized.workingDays)
     \/ isHoliday(value, normalized.holidays)
  THEN Pass(stepDay(value, dir, normalized), FALSE, 0)
  ELSE LET workStart == getWorkingHoursStart(value, normalized)
           workEnd == getWorkingHoursEnd(value, normalized)
       IN  IF workStart.null \/ workEnd.null
           THEN Pass(stepDay(value, dir, normalized), FALSE, 0)
           ELSE IF dir > 0
           THEN IF isBefore(value, workStart.date)
                THEN Pass(workStart.date, TRUE, 0)
                ELSE IF isAfter(value, workEnd.date)
                THEN Pass(setHours(addDays(value, 1), normalized.startHour,
                                   normalized.startMinute), FALSE, 0)
                ELSE Pass(value, TRUE, 0)
           ELSE IF isAfter(value, workEnd.date) \/ sameTime(value, workEnd.date)
                THEN Pass(workEnd.date, TRUE, 0)
                ELSE IF isBefore(value, workStart.date)
                THEN Pass(setHours(addDays(value, 0 - 1), normalized.endHour,
                                   normalized.endMinute), FALSE, 0)
                ELSE Pass(value, TRUE, 0)

\* the pass that stops on a working day whatever the time of day
movePassAnyTime(value, dir, normalized) ==
  IF ~isWorkingDay(value, normalized.workingDays)
     \/ isHoliday(value, normalized.holidays)
  THEN Pass(stepDay(value, dir, normalized), FALSE, 0)
  ELSE Pass(value, TRUE, 0)

\* lines 559-622: one pass of the loop of moveToWorkingTime on the value of result
movePass(value, dir, normalized) ==
  IF ~isWorkingDay(value, normalized.workingDays)
     \/ isHoliday(value, normalized.holidays)
  THEN Pass(stepDay(value, dir, normalized), FALSE, 0)
  ELSE LET workStart == getWorkingHoursStart(value, normalized)
           workEnd == getWorkingHoursEnd(value, normalized)
       IN  IF workStart.null \/ workEnd.null
           THEN Pass(stepDay(value, dir, normalized), FALSE, 0)
           ELSE IF dir > 0
           THEN IF isBefore(value, workStart.date)
                THEN Pass(workStart.date, TRUE, 0)
                ELSE IF isAfter(value, workEnd.date) \/ sameTime(value, workEnd.date)
                THEN Pass(setHours(addDays(value, 1), normalized.startHour,
                                   normalized.startMinute), FALSE, 0)
                ELSE Pass(value, TRUE, 0)
           ELSE IF isAfter(value, workEnd.date) \/ sameTime(value, workEnd.date)
                THEN Pass(workEnd.date, TRUE, 0)
                ELSE IF isBefore(value, workStart.date)
                THEN Pass(setHours(addDays(value, 0 - 1), normalized.endHour,
                                   normalized.endMinute), FALSE, 0)
                ELSE Pass(value, TRUE, 0)

\* the pass with availableMinutes > remainingMinutes at line 663
consumePassStrict(value, remaining, dir, normalized) ==
  LET workStart == getWorkingHoursStart(value, normalized)
      workEnd == getWorkingHoursEnd(value, normalized)
  IN  IF workStart.null \/ workEnd.null
      THEN Pass(addDays(value, dir), TRUE, remaining)
      ELSE LET availableMinutes ==
                 IF dir > 0 THEN timeDiff(workEnd.date, value)
                 ELSE timeDiff(value, workStart.date)
           IN  IF availableMinutes > remaining.ms
               THEN Pass(addMinutes(value, remaining.ms * dir), FALSE, NoMinutes)
               ELSE IF dir > 0
               THEN Pass(setHours(addDays(value, 1), normalized.startHour,
                                  normalized.startMinute),
                         TRUE, minus(remaining, availableMinutes))
               ELSE Pass(setHours(addDays(value, 0 - 1), normalized.endHour,
                                  normalized.endMinute),
                         TRUE, minus(remaining, availableMinutes))

\* the pass with the minutes available measured to the window end in both directions
consumePassToWindowEnd(value, remaining, dir, normalized) ==
  LET workStart == getWorkingHoursStart(value, normalized)
      workEnd == getWorkingHoursEnd(value, normalized)
  IN  IF workStart.null \/ workEnd.null
      THEN Pass(addDays(value, dir), TRUE, remaining)
      ELSE LET availableMinutes == timeDiff(workEnd.date, value)
           IN  IF atLeast(availableMinutes, remaining)
               THEN Pass(addMinutes(value, remaining.ms * dir), FALSE, NoMinutes)
               ELSE IF dir > 0
               THEN Pass(setHours(addDays(value, 1), normalized.startHour,
                                  normalized.startMinute),
                         TRUE, minus(remaining, availableMinutes))
               ELSE Pass(setHours(addDays(value, 0 - 1), normalized.endHour,
                                  normalized.endMinute),
                         TRUE, minus(remaining, availableMinutes))

\* the pass without the subtraction of line 669
consumePassKeepingRemainder(value, remaining, dir, normalized) ==
  LET workStart == getWorkingHoursStart(value, normalized)
      workEnd == getWorkingHoursEnd(value, normalized)
  IN  IF workStart.null \/ workEnd.null
      THEN Pass(addDays(value, dir), TRUE, remaining)
      ELSE LET availableMinutes ==
                 IF dir > 0 THEN timeDiff(workEnd.date, value)
                 ELSE timeDiff(value, workStart.date)
           IN  IF atLeast(availableMinutes, remaining)
               THEN Pass(addMinutes(value, remaining.ms * dir), FALSE, NoMinutes)
               ELSE IF dir > 0
               THEN Pass(setHours(addDays(value, 1), normalized.startHour,
                                  normalized.startMinute),
                         TRUE, remaining)
               ELSE Pass(setHours(addDays(value, 0 - 1), normalized.endHour,
                                  normalized.endMinute),
                         TRUE, remaining)

\* lines 640-682: one pass of the consume loop on the value of currentDate;
\* stop is TRUE when the pass ends with a call of moveToWorkingTime
consumePass(value, remaining, dir, normalized) ==
  LET workStart == getWorkingHoursStart(value, normalized)
      workEnd == getWorkingHoursEnd(value, normalized)
  IN  IF workStart.null \/ workEnd.null
      THEN Pass(addDays(value, dir), TRUE, remaining)
      ELSE LET availableMinutes ==
                 IF dir > 0 THEN timeDiff(workEnd.date, value)
                 ELSE timeDiff(value, workStart.date)
           IN  IF atLeast(availableMinutes, remaining)
               THEN Pass(addMinutes(value, remaining.ms * dir), FALSE, NoMinutes)
               ELSE IF dir > 0
               THEN Pass(setHours(addDays(value, 1), normalized.startHour,
                                  normalized.startMinute),
                         TRUE, minus(remaining, availableMinutes))
               ELSE Pass(setHours(addDays(value, 0 - 1), normalized.endHour,
                                  normalized.endMinute),
                         TRUE, minus(remaining, availableMinutes))

(***************************************************************************)
(* Date objects.  A variable of the code holds a reference to a Date       *)
(* object; heap gives each object's time value.  An object no variable     *)
(* refers to is dropped (its cell is reset).                               *)
(***************************************************************************)
Refs == {"o1", "o2", "o3", "o4", "o5"}

NullRef == "null"

\* a new object: a cell no live variable refers to
Fresh(live) == CHOOSE r \in Refs : r \notin live

Collect(h, live) == [r \in Refs |-> IF r \in live THEN h[r] ELSE InvalidDate]

(***************************************************************************)
(* Inputs                                                                  *)
(***************************************************************************)
\* last calendar day of the sampled instants (day 8 is Monday 9 Jan 2023)
MaxDay == 8

Days == 5..MaxDay

\* times of day: midnight, 09:00, 12:00:30.500, 17:00, 23:59:59.999
TimesOfDay ==
  {At(0, 0, 0, 0, 0).ms, At(0, 9, 0, 0, 0).ms, At(0, 12, 0, 30, 500).ms,
   At(0, 17, 0, 0, 0).ms, At(0, 23, 59, 59, 999).ms}

ValidDates == {DateOf(d, t) : d \in Days, t \in TimesOfDay}

Dates == ValidDates \cup {InvalidDate}

Options(startOfDay_, endOfDay_, workingDays_, holidays_) ==
  [startOfDay |-> startOfDay_, endOfDay |-> endOfDay_,
   workingDays |-> workingDays_, holidays |-> holidays_]

TimePairs ==
  {<<Undefined, Undefined>>,
   <<Str(<<"1", "2", ":", "0", "0">>), Str(<<"2", "3", ":", "5", "9">>)>>}

WorkingDaysSamples ==
  {Undefined, Arr(<<Num(1), Num(2), Num(3), Num(4), Num(5), Num(6)>>)}

HolidaysSamples ==
  {Undefined,
   Arr(<<At(MaxDay, 0, 0, 0, 0)>>),
   Arr(<<At(6, 12, 0, 30, 500), InvalidDate, At(MaxDay, 23, 59, 59, 999)>>)}

ValidOptions ==
  {Options(tp[1], tp[2], wd, h) :
     tp \in TimePairs, wd \in WorkingDaysSamples, h \in HolidaysSamples}

InvalidOptions ==
  {Options(Str(<<"2", "5", ":", "0", "0">>), Undefined, Undefined, Undefined),
   Options(Str(<<"0", "9", "0", "0">>), Undefined, Undefined, Undefined),
   Options(Undefined, Str(<<"a", "b", ":", "0", "0">>), Undefined, Undefined),
   Options(Other, Undefined, Undefined, Undefined),
   Options(Str(<<"1", "7", ":", "0", "0">>), Str(<<"0", "9", ":", "0", "0">>),
           Undefined, Undefined),
   Options(Undefined, Undefined, Arr(<<>>), Undefined),
   Options(Undefined, Undefined, Arr(<<Num(7), Num(8)>>), Undefined),
   Options(Undefined, Undefined, Arr(<<Num(1), Frac(1)>>), Undefined),
   Options(Undefined, Undefined, Undefined, Other)}

OptionsSamples == ValidOptions \cup InvalidOptions

\* raw options for the normalizer, every field good, omitted or bad in each
\* of its ways, in every combination
StartOfDaySamples ==
  {Undefined, Str(<<"0", "9", ":", "0", "0">>), Str(<<"1", "2", ":", "0", "0">>),
   Str(<<"2", "5", ":", "0", "0">>), Str(<<"0", "9", "0", "0">>), Other}

EndOfDaySamples ==
  {Undefined, Str(<<"1", "7", ":", "0", "0">>), Str(<<"0", "9", ":", "0", "0">>),
   Str(<<"1", "2", ":", "6", "0">>), Str(<<"a", "b", ":", "0", "0">>),
   Str(<<"1", "7", ":", "0", "0", ":", "0", "0">>)}

WorkingDaysFieldSamples ==
  {Undefined, Arr(<<Num(1), Num(2), Num(3), Num(4), Num(5), Num(6)>>), Arr(<<>>),
   Arr(<<Num(7), Num(8)>>), Arr(<<Num(1), Frac(1)>>), Other}

HolidaysFieldSamples == {Undefined, Arr(<<At(MaxDay, 0, 0, 0, 0)>>), Other}

NormalizeSamples ==
  {Options(s, e, wd, h) : s \in StartOfDaySamples, e \in EndOfDaySamples,
                          wd \in WorkingDaysFieldSamples, h \in HolidaysFieldSamples}

\* a calendar with Monday the only working day and every Monday from a year
\* before the sampled days to a year after them a holiday
MondaysOff ==
  Options(Undefined, Undefined, Arr(<<Num(1)>>),
          Arr([i \in 1..110 |-> At(1 + 7 * (i - 55), 0, 0, 0, 0)]))

\* Monday the only working day, the Mondays of days 15 to 428 holidays:
\* day 8 is the last working day for more than a year
MondaysOffLater ==
  Options(Undefined, Undefined, Arr(<<Num(1)>>),
          Arr([i \in 1..60 |-> At(8 + 7 * i, 0, 0, 0, 0)]))

\* Monday the only working day, the 52 Mondays of days 8 to 365 holidays:
\* Monday day 372 is the first working day, 365 days after Sunday day 7
MondaysOffForAYear ==
  Options(Undefined, Undefined, Arr(<<Num(1)>>),
          Arr([i \in 1..52 |-> At(1 + 7 * i, 0, 0, 0, 0)]))

\* every day of the week a working day from 09:00 to 09:03, no holidays
EverydayThreeMinutes ==
  Options(Str(<<"0", "9", ":", "0", "0">>), Str(<<"0", "9", ":", "0", "3">>),
          Arr([i \in 1..7 |-> Num(i - 1)]), Undefined)

\* amounts in hours: NaN, Infinity, -Infinity, undefined, 0, 0.25, 4, 10, -5, -10
InvalidAmounts ==
  {NonNumber("NaN"), NonNumber("Infinity"), NonNumber("-Infinity"),
   NonNumber("undefined")}

WalkAmounts ==
  {Finite(MsPerHour \div 4), Finite(4 * MsPerHour), Finite(10 * MsPerHour),
   Finite(0 - 5 * MsPerHour), Finite(0 - 10 * MsPerHour)}

Amounts == InvalidAmounts \cup {Finite(0)} \cup WalkAmounts

AddCall(date_, amount_, options_) ==
  [date |-> date_, amount |-> amount_, options |-> options_]

DefaultOptions == Options(Undefined, Undefined, Undefined, Undefined)

WithHolidays(holidays_) == Options(Undefined, Undefined, Undefined, Arr(holidays_))

\* the documented example: Monday 2 Jan 2023 15:00 plus 10 hours, Tuesday a holiday
HolidayExample ==
  AddCall(At(1, 15, 0, 0, 0), Finite(10 * MsPerHour), WithHolidays(<<At(2, 0, 0, 0, 0)>>))

\* calls taken from the tests and the documentation of addBusinessHours
Scenarios ==
  {AddCall(At(5, 15, 0, 0, 0), Finite(4 * MsPerHour), DefaultOptions),
   AddCall(At(1, 9, 0, 0, 0), Finite(50 * MsPerHour), DefaultOptions),
   AddCall(At(1, 9, 0, 0, 0), Finite(8 * MsPerHour), DefaultOptions),
   AddCall(At(5, 15, 0, 0, 0), Finite(10 * MsPerHour),
           WithHolidays(<<At(8, 0, 0, 0, 0), At(9, 0, 0, 0, 0)>>)),
   AddCall(At(8, 9, 0, 0, 0), Finite(0 - 5 * MsPerHour), DefaultOptions),
   AddCall(At(1, 17, 0, 0, 0), Finite(0 - 8 * MsPerHour), DefaultOptions),
   AddCall(At(3, 11, 0, 0, 0), Finite(0 - 10 * MsPerHour),
           WithHolidays(<<At(2, 0, 0, 0, 0)>>)),
   HolidayExample}

\* the sampled calls of addBusinessHours
AddCalls ==
  {AddCall(d, m, o) : d \in Dates, m \in Amounts, o \in OptionsSamples}
    \cup {AddCall(d, m, MondaysOff) : d \in Dates, m \in WalkAmounts}
    \cup Scenarios
    \cup {AddCall(At(8, 9, 0, 0, 0), Finite(10 * MsPerHour), MondaysOffLater)}

\* walks of about maxIterations work windows of three minutes, from the start
\* of a window: 500 hours forward (maxIterations windows) and 499.5 hours
\* backward (maxIterations - 10 windows); and walks whose first working day
\* is 365 and 364 days away
LongCalls ==
  {AddCall(At(1, 9, 0, 0, 0), Finite(500 * MsPerHour), EverydayThreeMinutes),
   AddCall(At(1, 9, 0, 0, 0), Finite(0 - 999 * (MsPerHour \div 2)), EverydayThreeMinutes),
   AddCall(At(7, 9, 0, 0, 0), Finite(4 * MsPerHour), MondaysOffForAYear),
   AddCall(At(8, 9, 0, 0, 0), Finite(4 * MsPerHour), MondaysOffForAYear)}

(***************************************************************************)
(* State.  a, b, c are the instants passed to the two pure entry points    *)
(* and options the raw options of every call; within holds the outcome of  *)
(* isWithinBusinessHours(a, options); hours holds the outcomes of          *)
(* businessHoursInInterval on {a, c}, {a, b} and {b, c}.                   *)
(* The other variables are one call of addBusinessHours(date, amount,      *)
(* options): pc is the place in the code, the variables named as in the    *)
(* code hold references into heap, outcome is the value returned or the    *)
(* error thrown.  calendarConfig holds the outcome of a direct call of     *)
(* normalizeBusinessHoursOptions(options), and calls what each entry point *)
(* called did with the configuration.                                      *)
(***************************************************************************)
VARIABLES a, b, c, options, within, hours, calendarConfig,
          pc, heap, date, amount, date_, currentDate, result, normalized,
          remainingMinutes, direction, attempts, iterations, outcome, calls

pureVars == <<a, b, c, within, hours, calendarConfig>>

addVars == <<pc, heap, date, amount, date_, currentDate, result, normalized,
             remainingMinutes, direction, attempts, iterations, outcome>>

vars == <<a, b, c, options, within, hours, calendarConfig,
          pc, heap, date, amount, date_, currentDate, result, normalized,
          remainingMinutes, direction, attempts, iterations, outcome, calls>>

NoHours == [ac |-> NotCalled(NoTotal), ab |-> NotCalled(NoTotal),
            bc |-> NotCalled(NoTotal)]

NotNormalized == NotCalled(Failed(NoError))

NoCallsYet == [within |-> NoCalls, interval |-> NoCalls, add |-> NoCalls]

\* the locals of addBusinessHours before the call
AddLocalsInit ==
  /\ date_ = NullRef
  /\ currentDate = NullRef
  /\ result = NullRef
  /\ normalized = Failed(NoError)
  /\ remainingMinutes = NoMinutes
  /\ direction = 1
  /\ attempts = 0
  /\ iterations = 0
  /\ outcome = NotCalled(NullRef)
  /\ calls = NoCallsYet

\* no call of addBusinessHours
AddIdle ==
  /\ pc = "idle"
  /\ heap = Collect([r \in Refs |-> InvalidDate], {})
  /\ date = NullRef
  /\ amount = Finite(0)
  /\ AddLocalsInit

Init ==
  /\ a \in Dates
  /\ c \in Dates
  /\ b = a
  /\ options \in OptionsSamples
  /\ within = NotCalled(FALSE)
  /\ hours = NoHours
  /\ calendarConfig = NotNormalized
  /\ AddIdle

\* three valid instants a <= b <= c and one valid calendar
InitAdditivity ==
  /\ a \in ValidDates
  /\ c \in {x \in ValidDates : ~isBefore(x, a)}
  /\ b \in {x \in ValidDates : ~isBefore(x, a) /\ ~isAfter(x, c)}
  /\ options \in ValidOptions
  /\ within = NotCalled(FALSE)
  /\ hours = NoHours
  /\ calendarConfig = NotNormalized
  /\ AddIdle

CallIsWithinBusinessHours ==
  /\ within.kind = "none"
  /\ within' = isWithinBusinessHours(a, options)
  /\ calls' = [calls EXCEPT !.within = isWithinBusinessHoursCalls(a, options)]
  /\ UNCHANGED <<a, b, c, options, hours, calendarConfig>>
  /\ UNCHANGED addVars

CallBusinessHoursInInterval ==
  /\ hours.ac.kind = "none"
  /\ hours' = [ac |-> businessHoursInInterval([start |-> a, end |-> c], options),
               ab |-> businessHoursInInterval([start |-> a, end |-> b], options),
               bc |-> businessHoursInInterval([start |-> b, end |-> c], options)]
  /\ calls' = [calls EXCEPT
                 !.interval = businessHoursInIntervalCalls([start |-> a, end |-> c],
                                                           options)]
  /\ UNCHANGED <<a, b, c, options, within, calendarConfig>>
  /\ UNCHANGED addVars

Next == CallIsWithinBusinessHours \/ CallBusinessHoursInInterval

Spec == Init /\ [][Next]_vars

NextAdditivity == CallBusinessHoursInInterval

\* raw options of every sampled shape, handed to the normalizer alone
InitNormalize ==
  /\ a = InvalidDate /\ b = InvalidDate /\ c = InvalidDate
  /\ options \in NormalizeSamples
  /\ within = NotCalled(FALSE)
  /\ hours = NoHours
  /\ calendarConfig = NotNormalized
  /\ AddIdle

\* a call of normalizeBusinessHoursOptions(options)
CallNormalizeBusinessHoursOptions ==
  /\ calendarConfig.kind = "none"
  /\ calendarConfig' =
       LET config == normalizeBusinessHoursOptions(options)
       IN  IF config.error # NoError THEN Thrown(config.error, Failed(NoError))
           ELSE Returned(config)
  /\ UNCHANGED <<a, b, c, options, within, hours, calls>>
  /\ UNCHANGED addVars

NextNormalize == CallNormalizeBusinessHoursOptions

SpecNormalize == InitNormalize /\ [][NextNormalize]_vars

\* the longest sampled time string, and the characters it is made of: two
\* digits, the separator and a letter
MaxTimeLength == 5

TimeCharacters == {"0", "9", ":", "a"}

TimeStrings == UNION {[1..n -> TimeCharacters] : n \in 0..MaxTimeLength}

\* options whose startOfDay, or whose endOfDay, is any string of the sampled
\* characters, every other field omitted
TimeStringSamples ==
  {Options(Str(t), Undefined, Undefined, Undefined) : t \in TimeStrings}
    \cup {Options(Undefined, Str(t), Undefined, Undefined) : t \in TimeStrings}

InitTimeStrings ==
  /\ a = InvalidDate /\ b = InvalidDate /\ c = InvalidDate
  /\ options \in TimeStringSamples
  /\ within = NotCalled(FALSE)
  /\ hours = NoHours
  /\ calendarConfig = NotNormalized
  /\ AddIdle

SpecTimeStrings == InitTimeStrings /\ [][NextNormalize]_vars

SpecAdditivity == InitAdditivity /\ [][NextAdditivity]_vars

(***************************************************************************)
(* One call of addBusinessHours, step by step                              *)
(***************************************************************************)
\* the caller holds one Date object and passes it with an amount and options
InitAdd ==
  /\ a = InvalidDate /\ b = InvalidDate /\ c = InvalidDate
  /\ within = NotCalled(FALSE)
  /\ hours = NoHours
  /\ calendarConfig = NotNormalized
  /\ pc = "call"
  /\ date = Fresh({})
  /\ \E call \in AddCalls :
       /\ heap = Collect([r \in Refs |-> call.date], {date})
       /\ amount = call.amount
       /\ options = call.options
  /\ AddLocalsInit

\* every reference the call or its caller still holds
Live(refs) == refs \ {NullRef}

\* the call ends: the locals go out of scope, the caller keeps date and the result
Finish(h, out) ==
  /\ outcome' = out
  /\ heap' = Collect(h, Live({date, out.value}))
  /\ date_' = NullRef
  /\ currentDate' = NullRef
  /\ result' = NullRef
  /\ UNCHANGED <<date, amount, normalized, remainingMinutes, direction,
                 attempts, iterations>>

\* one more weekday, holiday or work-window evaluation of addBusinessHours
CalendarEvaluated ==
  [calls EXCEPT !.add = CallSummary(calls.add.normalize, TRUE,
                                    calls.add.early \/ calls.add.normalize = 0)]

\* lines 526-550: the argument checks, the normalization and the set-up of the walk
AddBusinessHoursEnter ==
  /\ pc = "call"
  /\ LET r1 == Fresh({date})
         h1 == [heap EXCEPT ![r1] = toDate(heap[date])]
         r2 == Fresh({date, r1})
     IN
     \E entry \in {addEntry(h1[r1], amount, options)} :
     /\  \/ /\ entry.kind = "invalid"
            /\ pc' = "done"
            /\ Finish([h1 EXCEPT ![r2] = constructFrom(InvalidDate)], Returned(r2))
         \/ /\ entry.kind = "copy"
            /\ pc' = "done"
            /\ Finish([h1 EXCEPT ![r2] = constructFrom(h1[r1])], Returned(r2))
         \/ /\ entry.kind = "throw"
            /\ pc' = "thrown"
            /\ Finish(h1, Thrown(entry.error, NullRef))
         \/ /\ entry.kind = "walk"
            /\ pc' = "moveEnter"
            /\ normalized' = entry.normalized
            /\ remainingMinutes' = minutesOf(amount)
            /\ direction' = IF amount.ms >= 0 THEN 1 ELSE 0 - 1
            /\ date_' = r1
            /\ currentDate' = r2
            /\ heap' = Collect([h1 EXCEPT ![r2] = h1[r1]], {date, r1, r2})
            /\ UNCHANGED <<date, amount, result, attempts, iterations, outcome>>
     /\ calls' = [calls EXCEPT
                    !.add.normalize = IF entry.kind \in {"throw", "walk"}
                                      THEN calls.add.normalize + 1
                                      ELSE calls.add.normalize]
  /\ UNCHANGED <<options, pureVars>>

\* lines 554-556: moveToWorkingTime(currentDate, direction) starts on a copy
MoveEnter ==
  /\ pc = "moveEnter"
  /\ LET r == Fresh(Live({date, date_, currentDate}))
     IN  /\ result' = r
         /\ heap' = Collect([heap EXCEPT ![r] = heap[currentDate]],
                            Live({date, date_, currentDate, r}))
  /\ attempts' = 0
  /\ pc' = "moveLoop"
  /\ UNCHANGED <<date, amount, date_, currentDate, normalized, remainingMinutes,
                 direction, iterations, outcome, calls>>
  /\ UNCHANGED <<options, pureVars>>

\* the pass without the count of line 559
MovePassUncounted ==
  /\ pc = "moveLoop"
  /\ attempts < maxAttempts
  /\ attempts' = attempts
  /\ LET pass == movePass(heap[result], direction, normalized)
         r == IF pass.date = heap[result] THEN result
              ELSE Fresh(Live({date, date_, currentDate}))
     IN  /\ result' = r
         /\ heap' = Collect([heap EXCEPT ![r] = pass.date],
                            Live({date, date_, currentDate, r}))
         /\ pc' = IF pass.stop THEN "moveExit" ELSE "moveLoop"
  /\ calls' = CalendarEvaluated
  /\ UNCHANGED <<date, amount, date_, currentDate, normalized, remainingMinutes,
                 direction, iterations, outcome>>
  /\ UNCHANGED <<options, pureVars>>

\* lines 558-623: one pass of the loop of moveToWorkingTime
MovePass ==
  /\ pc = "moveLoop"
  /\ attempts < maxAttempts
  /\ attempts' = attempts + 1
  /\ LET pass == movePass(heap[result], direction, normalized)
         r == IF pass.date = heap[result] THEN result
              ELSE Fresh(Live({date, date_, currentDate}))
     IN  /\ result' = r
         /\ heap' = Collect([heap EXCEPT ![r] = pass.date],
                            Live({date, date_, currentDate, r}))
         /\ pc' = IF pass.stop THEN "moveExit" ELSE "moveLoop"
  /\ calls' = CalendarEvaluated
  /\ UNCHANGED <<date, amount, date_, currentDate, normalized, remainingMinutes,
                 direction, iterations, outcome>>
  /\ UNCHANGED <<options, pureVars>>

\* moveToWorkingTime without the check of line 625
MoveExitUnchecked ==
  /\ \/ pc = "moveExit"
     \/ pc = "moveLoop" /\ attempts >= maxAttempts
  /\ pc' = "loop"
  /\ currentDate' = result
  /\ result' = NullRef
  /\ heap' = Collect(heap, Live({date, date_, result}))
  /\ UNCHANGED <<date, amount, date_, normalized, remainingMinutes,
                 direction, attempts, iterations, outcome>>
  /\ UNCHANGED <<options, pureVars, calls>>

\* lines 625-629 and the assignment of the value returned (lines 633, 648, 675, 680)
MoveExit ==
  /\ \/ pc = "moveExit"
     \/ pc = "moveLoop" /\ attempts >= maxAttempts
  /\ IF attempts >= maxAttempts
     THEN /\ pc' = "thrown"
          /\ Finish(heap, Thrown(Err("RangeError",
                      "Unable to find working time within reasonable range"), NullRef))
     ELSE /\ pc' = "loop"
          /\ currentDate' = result
          /\ result' = NullRef
          /\ heap' = Collect(heap, Live({date, date_, result}))
          /\ UNCHANGED <<date, amount, date_, normalized, remainingMinutes,
                         direction, attempts, iterations, outcome>>
  /\ UNCHANGED <<options, pureVars, calls>>

\* the pass with the options normalized again inside the loop
ConsumePassNormalizing ==
  /\ pc = "loop"
  /\ positive(remainingMinutes) /\ iterations < maxIterations
  /\ iterations' = iterations + 1
  /\ LET config == normalizeBusinessHoursOptions(options)
         pass == consumePass(heap[currentDate], remainingMinutes, direction, config)
         r == Fresh(Live({date, date_}))
     IN  /\ currentDate' = r
         /\ heap' = Collect([heap EXCEPT ![r] = pass.date], Live({date, date_, r}))
         /\ remainingMinutes' = pass.remaining
         /\ pc' = IF pass.stop THEN "moveEnter" ELSE "loop"
  /\ calls' = [calls EXCEPT !.add = CallSummary(calls.add.normalize + 1, TRUE,
                                                calls.add.early)]
  /\ UNCHANGED <<date, amount, date_, result, normalized, direction, attempts, outcome>>
  /\ UNCHANGED <<options, pureVars>>

\* lines 639-683: one pass of the consume loop
ConsumePass ==
  /\ pc = "loop"
  /\ positive(remainingMinutes) /\ iterations < maxIterations
  /\ iterations' = iterations + 1
  /\ LET pass == consumePass(heap[currentDate], remainingMinutes, direction, normalized)
         r == Fresh(Live({date, date_}))
     IN  /\ currentDate' = r
         /\ heap' = Collect([heap EXCEPT ![r] = pass.date], Live({date, date_, r}))
         /\ remainingMinutes' = pass.remaining
         /\ pc' = IF pass.stop THEN "moveEnter" ELSE "loop"
  /\ calls' = CalendarEvaluated
  /\ UNCHANGED <<date, amount, date_, result, normalized, direction, attempts, outcome>>
  /\ UNCHANGED <<options, pureVars>>

\* the return with the result written into the caller's object
AddReturnInPlace ==
  /\ pc = "loop"
  /\ ~(positive(remainingMinutes) /\ iterations < maxIterations)
  /\ IF iterations >= maxIterations
     THEN /\ pc' = "thrown"
          /\ Finish(heap, Thrown(Err("RangeError",
                      "Exceeded maximum iterations while adding business hours"),
                      NullRef))
     ELSE /\ pc' = "done"
          /\ Finish([heap EXCEPT ![date] = heap[currentDate]], Returned(date))
  /\ UNCHANGED <<options, pureVars, calls>>

\* lines 685-689: the iteration limit and the return of a new Date
AddReturn ==
  /\ pc = "loop"
  /\ ~(positive(remainingMinutes) /\ iterations < maxIterations)
  /\ IF iterations >= maxIterations
     THEN /\ pc' = "thrown"
          /\ Finish(heap, Thrown(Err("RangeError",
                      "Exceeded maximum iterations while adding business hours"),
                      NullRef))
     ELSE /\ pc' = "done"
          /\ LET r == Fresh(Live({date, date_, currentDate}))
             IN  Finish([heap EXCEPT ![r] = constructFrom(heap[currentDate])],
                        Returned(r))
  /\ UNCHANGED <<options, pureVars, calls>>

NextAdd ==
  \/ AddBusinessHoursEnter
  \/ MoveEnter
  \/ MovePass
  \/ MoveExit
  \/ ConsumePass
  \/ AddReturn

SpecAdd == InitAdd /\ [][NextAdd]_vars

\* calls of all three entry points: the two pure ones on sampled instants,
\* addBusinessHours step by step
InitCalls == Init \/ InitAdd

NextCalls == (pc = "idle" /\ Next) \/ NextAdd

SpecCalls == InitCalls /\ [][NextCalls]_vars

\* the sampled calls and the long walks
InitAddLong ==
  /\ a = InvalidDate /\ b = InvalidDate /\ c = InvalidDate
  /\ within = NotCalled(FALSE)
  /\ hours = NoHours
  /\ calendarConfig = NotNormalized
  /\ pc = "call"
  /\ date = Fresh({})
  /\ \E call \in AddCalls \cup LongCalls :
       /\ heap = Collect([r \in Refs |-> call.date], {date})
       /\ amount = call.amount
       /\ options = call.options
  /\ AddLocalsInit

SpecAddLong == InitAddLong /\ [][NextAdd]_vars

\* amounts of 31 and 62 minutes given in hours: the doubles nearest to 31/60
\* and 62/60, whose products with 60 are rounded up; from instants that many
\* minutes from a window boundary and from others
RoundedAmounts ==
  {FiniteRoundedUp(31 * MsPerMinute), FiniteRoundedUp(0 - 31 * MsPerMinute),
   FiniteRoundedUp(62 * MsPerMinute), FiniteRoundedUp(0 - 62 * MsPerMinute)}

RoundedCalls ==
  {AddCall(d, m, DefaultOptions) :
     d \in {At(5, 16, 29, 0, 0), At(5, 15, 58, 0, 0), At(8, 9, 31, 0, 0),
            At(8, 10, 2, 0, 0), At(8, 9, 0, 0, 0), At(6, 12, 0, 0, 0)},
     m \in RoundedAmounts}

\* the sampled calls and the calls with rounded amounts
InitAddRounded ==
  /\ a = InvalidDate /\ b = InvalidDate /\ c = InvalidDate
  /\ within = NotCalled(FALSE)
  /\ hours = NoHours
  /\ calendarConfig = NotNormalized
  /\ pc = "call"
  /\ date = Fresh({})
  /\ \E call \in AddCalls \cup RoundedCalls :
       /\ heap = Collect([r \in Refs |-> call.date], {date})
       /\ amount = call.amount
       /\ options = call.options
  /\ AddLocalsInit

SpecAddRounded == InitAddRounded /\ [][NextAdd]_vars

\* the caller notes the instant passed in a and makes the sampled call
InitRoundTrip ==
  /\ b = InvalidDate /\ c = InvalidDate
  /\ within = NotCalled(FALSE)
  /\ hours = NoHours
  /\ calendarConfig = NotNormalized
  /\ pc = "call"
  /\ date = Fresh({})
  /\ \E call \in AddCalls :
       /\ a = call.date
       /\ heap = Collect([r \in Refs |-> call.date], {date})
       /\ amount = call.amount
       /\ options = call.options
  /\ AddLocalsInit

\* the caller passes the valid instant returned back with the amount negated:
\* addBusinessHours(addBusinessHours(d, h, options), -h, options); b notes
\* the instant the first call returned
CallBack ==
  /\ pc = "done"
  /\ b = InvalidDate
  /\ amount.kind = "finite"
  /\ ~isNaNDate(heap[outcome.value])
  /\ b' = heap[outcome.value]
  /\ date' = outcome.value
  /\ amount' = [amount EXCEPT !.ms = 0 - amount.ms]
  /\ heap' = Collect(heap, {outcome.value})
  /\ pc' = "call"
  /\ date_' = NullRef /\ currentDate' = NullRef /\ result' = NullRef
  /\ normalized' = Failed(NoError)
  /\ remainingMinutes' = NoMinutes /\ direction' = 1
  /\ attempts' = 0 /\ iterations' = 0
  /\ outcome' = NotCalled(NullRef)
  /\ UNCHANGED <<a, c, options, within, hours, calendarConfig, calls>>

NextRoundTrip ==
  \/ NextAdd
  \/ CallBack

SpecRoundTrip == InitRoundTrip /\ [][NextRoundTrip]_vars

\* the caller measures the walk: businessHoursInInterval from the instant
\* passed to the valid instant returned, or the other way round after a
\* negative amount; b notes the instant returned
MeasureWalk ==
  /\ pc = "done"
  /\ hours.ab.kind = "none"
  /\ amount.kind = "finite"
  /\ ~isNaNDate(heap[outcome.value])
  /\ b' = heap[outcome.value]
  /\ \E interval \in {IF amount.ms >= 0 THEN [start |-> a, end |-> b']
                      ELSE [start |-> b', end |-> a]} :
       /\ hours' = [hours EXCEPT !.ab = businessHoursInInterval(interval, options)]
       /\ calls' = [calls EXCEPT
                      !.interval = businessHoursInIntervalCalls(interval, options)]
  /\ UNCHANGED <<a, c, options, within, calendarConfig>>
  /\ UNCHANGED addVars

NextMeasure ==
  \/ NextAdd
  \/ MeasureWalk

\* the sampled calls, and a walk over three days with a part of an hour on
\* the first and on the last: Friday 6 Jan 2023 15:01 plus 10 hours
MeasuredCalls ==
  AddCalls \cup {AddCall(At(5, 15, 1, 0, 0), Finite(10 * MsPerHour), DefaultOptions)}

InitMeasure ==
  /\ b = InvalidDate /\ c = InvalidDate
  /\ within = NotCalled(FALSE)
  /\ hours = NoHours
  /\ calendarConfig = NotNormalized
  /\ pc = "call"
  /\ date = Fresh({})
  /\ \E call \in MeasuredCalls :
       /\ a = call.date
       /\ heap = Collect([r \in Refs |-> call.date], {date})
       /\ amount = call.amount
       /\ options = call.options
  /\ AddLocalsInit

SpecMeasure == InitMeasure /\ [][NextMeasure]_vars

(***************************************************************************)
(* The calendar the claims speak of, read off the normalized options       *)
(***************************************************************************)
Config == normalizeBusinessHoursOptions(options)

ValidConfig == Config.error = NoError

startMinuteOfDay == Config.startHour * 60 + Config.startMinute

endMinuteOfDay == Config.endHour * 60 + Config.endMinute

minuteOfDay(t) == t.ms \div MsPerMinute

WorkingWeekdays == {Config.workingDays[i].v : i \in 1..Len(Config.workingDays)}

HolidayEntries ==
  {Config.holidays[i] : i \in {j \in 1..Len(Config.holidays) : ~Config.holidays[j].nan}}

HolidayDays == {h.day : h \in HolidayEntries}

BusinessDay(d) == (d % 7) \in WorkingWeekdays /\ d \notin HolidayDays

AbsMs(t) == t.day * MsPerDay + t.ms

windowStartMs(d) == d * MsPerDay + startMinuteOfDay * MsPerMinute

windowEndMs(d) == d * MsPerDay + endMinuteOfDay * MsPerMinute

Larger(x, y) == IF x >= y THEN x ELSE y

Smaller(x, y) == IF x <= y THEN x ELSE y

\* length of the overlap of [s, e] with the work window of day d
WindowOverlap(d, s, e) ==
  IF BusinessDay(d)
  THEN Larger(0, Smaller(AbsMs(e), windowEndMs(d)) - Larger(AbsMs(s), windowStartMs(d)))
  ELSE 0

RECURSIVE SumWindowOverlap(_, _, _, _)
SumWindowOverlap(d, last, s, e) ==
  IF d > last THEN 0 ELSE WindowOverlap(d, s, e) + SumWindowOverlap(d + 1, last, s, e)

\* the hours of the days first..last, each day's overlap turned into hours
\* and the days added up in order; the days in skipped count as 0
RECURSIVE SumWindowHours(_, _, _, _, _)
SumWindowHours(first, last, s, e, skipped) ==
  IF last < first THEN FloatZero
  ELSE floatAdd(SumWindowHours(first, last - 1, s, e, skipped),
                IF last \in skipped THEN FloatZero
                ELSE floatDiv(WindowOverlap(last, s, e), MsPerHour))

ValidInterval(s, e) == ~s.nan /\ ~e.nan /\ ~isAfter(s, e)

(***************************************************************************)
(* Claims                                                                  *)
(***************************************************************************)

\* C1: for a valid instant and a valid configuration isWithinBusinessHours
\* returns TRUE exactly when the weekday is a working day, the calendar day
\* is no holiday and the minute of day m satisfies start <= m < end.
C1_WithinIffInWindow ==
  (within.kind # "none" /\ ~a.nan /\ ValidConfig)
    => within = Returned(/\ BusinessDay(a.day)
                         /\ startMinuteOfDay <= minuteOfDay(a)
                         /\ minuteOfDay(a) < endMinuteOfDay)

\* C1 witness: on a working non-holiday day, at the end minute, the answer is FALSE
C1_Witness ==
  /\ ~a.nan /\ ValidConfig /\ BusinessDay(a.day)
  /\ minuteOfDay(a) = endMinuteOfDay
  /\ within = Returned(FALSE)

\* C2: with an invalid instant isWithinBusinessHours returns FALSE and
\* throws nothing, whatever the options are.
C2_InvalidDateIsFalse ==
  (within.kind # "none" /\ a.nan) => within = Returned(FALSE)

\* C2 witness: an invalid instant with options that fail validation
C2_Witness == a.nan /\ ~ValidConfig /\ within = Returned(FALSE)

\* C3: an instant on the calendar day of a holiday entry is never within
\* business hours, and that day adds nothing to businessHoursInInterval,
\* whatever the times of day of the entry and of the instant and whatever
\* the weekday.
C3_HolidayRemovesDay ==
  \A h \in HolidayEntries :
    /\ (within.kind # "none" /\ ~a.nan /\ ValidConfig /\ a.day = h.day)
         => within = Returned(FALSE)
    /\ (hours.ac.kind = "return" /\ a.day = h.day /\ c.day = h.day)
         => hours.ac.value.hours = FloatZero
    /\ (hours.ac.kind = "return" /\ a.day <= h.day /\ h.day <= c.day)
         => /\ hours.ac.value.hours = SumWindowHours(a.day, c.day, a, c, {h.day})
            /\ hours.ac.value.ms = SumWindowOverlap(a.day, h.day - 1, a, c)
                                   + SumWindowOverlap(h.day + 1, c.day, a, c)

\* C3 witness: the entry and the instant differ in time of day, the instant
\* is inside the work window of a working weekday, and both calls were made
C3_Witness ==
  /\ ~a.nan /\ ValidConfig /\ within = Returned(FALSE)
  /\ hours.ac.kind = "return" /\ hours.ac.value.hours = FloatZero /\ c.day = a.day
  /\ isBefore(a, c)
  /\ (a.day % 7) \in WorkingWeekdays
  /\ startMinuteOfDay <= minuteOfDay(a) /\ minuteOfDay(c) <= endMinuteOfDay
  /\ \E h \in HolidayEntries : h.day = a.day /\ h.ms > c.ms

\* C4: for a valid interval and a valid configuration businessHoursInInterval
\* returns the sum, over the days from the start's day through the end's
\* day, of the overlap of [start, end] with the day's work window (each
\* day's overlap in hours, added up as numbers of the language); the total
\* is never negative and is 0 when there is no overlap.
C4_SumOfWindowOverlaps ==
  (hours.ac.kind # "none" /\ ValidInterval(a, c) /\ ValidConfig)
    => /\ hours.ac.kind = "return"
       /\ hours.ac.value.hours = SumWindowHours(a.day, c.day, a, c, {})
       /\ hours.ac.value.ms = SumWindowOverlap(a.day, c.day, a, c)
       /\ hours.ac.value.ms >= 0
       /\ (hours.ac.value.ms = 0 <=> hours.ac.value.hours = FloatZero)
       /\ hours.ac.value.days = c.day - a.day + 1

\* C4 witness: an interval over three days or more that starts inside a work
\* window, ends after one and has a non-working day in between
C4_Witness ==
  /\ hours.ac.kind = "return" /\ hours.ac.value.ms > 0
  /\ c.day >= a.day + 2
  /\ BusinessDay(a.day) /\ BusinessDay(c.day)
  /\ startMinuteOfDay < minuteOfDay(a) /\ minuteOfDay(a) < endMinuteOfDay
  /\ minuteOfDay(c) > endMinuteOfDay
  /\ \E d \in (a.day + 1)..(c.day - 1) : ~BusinessDay(d)

AllReturned ==
  hours.ac.kind = "return" /\ hours.ab.kind = "return" /\ hours.bc.kind = "return"

\* C5 as stated: for a <= b <= c the value returned for [a, c] is the value
\* returned for [a, b] plus the value returned for [b, c].
C5_HoursAdditive ==
  AllReturned
    => hours.ac.value.hours = floatAdd(hours.ab.value.hours, hours.bc.value.hours)

\* C5 amended: for a <= b <= c the overlap of [a, c] in exact milliseconds is
\* the overlap of [a, b] plus the overlap of [b, c]; the values returned
\* satisfy the equation exactly when one of the two parts is 0.
C5_Additivity ==
  AllReturned
    => /\ hours.ac.value.ms = hours.ab.value.ms + hours.bc.value.ms
       /\ hours.ab.value.hours = FloatZero => hours.ac.value.hours = hours.bc.value.hours
       /\ hours.bc.value.hours = FloatZero => hours.ac.value.hours = hours.ab.value.hours

\* C5 witness: b is exactly on a window boundary and both parts have hours
C5_Witness ==
  /\ AllReturned
  /\ hours.ab.value.ms > 0 /\ hours.bc.value.ms > 0
  /\ BusinessDay(b.day) /\ b.ms = endMinuteOfDay * MsPerMinute

\* C6: a zero-length interval at a valid instant yields exactly 0 and no error.
C6_ZeroLengthIsZero ==
  (hours.ac.kind # "none" /\ ~a.nan /\ a = c /\ ValidConfig)
    => /\ hours.ac.kind = "return"
       /\ hours.ac.value.hours = FloatZero
       /\ hours.ac.value.ms = 0

\* C6 witness: the instant is strictly inside the work window of a working day
C6_Witness ==
  /\ ~a.nan /\ a = c /\ ValidConfig /\ BusinessDay(a.day)
  /\ startMinuteOfDay < minuteOfDay(a) /\ minuteOfDay(a) < endMinuteOfDay
  /\ hours.ac = Returned(Hours(FloatZero, 0, 1))

IntervalErrors ==
  {"Start date is invalid", "End date is invalid",
   "Start date must be before or equal to end date"}

\* C7: businessHoursInInterval rejects a bad interval before any day is
\* visited and before the options are looked at: invalid start first, then
\* invalid end, then start after end; start equal to end is accepted.
C7_IntervalErrorsInOrder ==
  hours.ac.kind # "none" =>
    /\ a.nan => hours.ac = Thrown(Err("RangeError", "Start date is invalid"), NoTotal)
    /\ (~a.nan /\ c.nan)
         => hours.ac = Thrown(Err("RangeError", "End date is invalid"), NoTotal)
    /\ (~a.nan /\ ~c.nan /\ isAfter(a, c))
         => hours.ac = Thrown(Err("RangeError",
                                  "Start date must be before or equal to end date"),
                              NoTotal)
    /\ ValidInterval(a, c) => hours.ac.error.msg \notin IntervalErrors

\* C7 witness: both instants are invalid and the options are invalid too;
\* the error raised is the invalid-start error
C7_Witness ==
  /\ a.nan /\ c.nan /\ ~ValidConfig
  /\ hours.ac = Thrown(Err("RangeError", "Start date is invalid"), NoTotal)

AddCalled == pc \notin {"idle", "call"}

\* C8: addBusinessHours(d, 0) for a valid d returns an instant value-equal
\* to d: no snapping to working time, no error, whatever the options.
C8_ZeroAmountIsCopy ==
  (AddCalled /\ amount = Finite(0) /\ ~heap[date].nan)
    => /\ pc = "done"
       /\ outcome.kind = "return"
       /\ heap[outcome.value] = heap[date]

\* C8 witness: d is on a day that is not a business day of a valid calendar,
\* where a walk would have moved it
C8_Witness ==
  /\ pc = "done" /\ amount = Finite(0) /\ ~heap[date].nan
  /\ ValidConfig /\ ~BusinessDay(heap[date].day)
  /\ outcome.kind = "return" /\ heap[outcome.value] = heap[date]

C10_InputNeverMutated ==
  [][pc # "idle" =>
       /\ date' = date
       /\ heap'[date] = heap[date]
       /\ outcome'.kind = "return" => outcome'.value # date]_vars

\* C10 witness: a walk has returned an instant other than the starting one
C10_Witness ==
  /\ pc = "done" /\ amount \in WalkAmounts
  /\ outcome.kind = "return" /\ outcome.value # date
  /\ heap[outcome.value] # heap[date]

Walked == pc = "done" /\ amount.kind = "finite" /\ ~heap[date].nan

C12_BackwardWalk ==
  (Walked /\ amount.ms < 0)
    => LET d == heap[date]
           r == heap[outcome.value]
       IN  /\ outcome.kind = "return" /\ ~r.nan
           /\ BusinessDay(r.day)
           /\ windowStartMs(r.day) <= AbsMs(r) /\ AbsMs(r) < windowEndMs(r.day)
           /\ SumWindowOverlap(r.day, d.day, r, d) = 0 - amount.ms
           /\ (d = At(8, 9, 0, 0, 0) /\ amount = Finite(0 - 5 * MsPerHour)
                 /\ options = DefaultOptions)
                => r = At(5, 12, 0, 0, 0)
           /\ (d = At(3, 11, 0, 0, 0) /\ amount = Finite(0 - 10 * MsPerHour)
                 /\ options = WithHolidays(<<At(2, 0, 0, 0, 0)>>))
                => r = At(1, 9, 0, 0, 0)

\* C12 witness: a walk back from a holiday Monday that skips the Monday,
\* Sunday and Saturday and ends on Friday
C12_Witness ==
  /\ Walked /\ amount.ms < 0
  /\ heap[date].day = 8 /\ 8 \in HolidayDays /\ BusinessDay(5)
  /\ ~BusinessDay(6) /\ ~BusinessDay(7)
  /\ heap[outcome.value].day = 5

HolidayExampleCalled ==
  /\ Walked
  /\ AddCall(heap[date], amount, options) = HolidayExample

RawStart == IF options.startOfDay.kind = "undefined" THEN DefaultStartOfDay
            ELSE options.startOfDay

RawEnd == IF options.endOfDay.kind = "undefined" THEN DefaultEndOfDay
          ELSE options.endOfDay

RawWorkingDays == IF options.workingDays.kind = "undefined" THEN DefaultWorkingDays
                  ELSE options.workingDays

RawHolidays == IF options.holidays.kind = "undefined" THEN DefaultHolidays
               ELSE options.holidays

\* rule 1: a time is a string with exactly one colon
ShapeBad(t) ==
  t.kind # "string" \/ Cardinality({i \in 1..Len(t.v) : t.v[i] = ":"}) # 1

HourOf(t) == parseInt(split(t.v)[1])

MinuteOf(t) == parseInt(split(t.v)[2])

\* rule 2: hour 0-23 and minute 0-59
ValueBad(t) ==
  \/ HourOf(t).nan \/ MinuteOf(t).nan
  \/ HourOf(t).v \notin 0..23 \/ MinuteOf(t).v \notin 0..59

RawMinuteOfDay(t) == HourOf(t).v * 60 + MinuteOf(t).v

\* rule 3: the end is strictly after the start
EndNotAfterStart == RawMinuteOfDay(RawEnd) <= RawMinuteOfDay(RawStart)

\* rule 4: workingDays is a non-empty array of integers 0-6
WorkingDaysBad ==
  \/ RawWorkingDays.kind # "array"
  \/ RawWorkingDays.v = <<>>
  \/ \E i \in 1..Len(RawWorkingDays.v) :
       ~RawWorkingDays.v[i].int \/ RawWorkingDays.v[i].v \notin 0..6

\* rule 5: holidays is an array
HolidaysBad == RawHolidays.kind # "array"

FormatErrors ==
  {Err("TypeError", "Time must be a string"), Err("RangeError", "Invalid time format")}

ValueErrors == {Err("RangeError", "Invalid time value")}

OrderErrors == {Err("RangeError", "End of day must be after start of day")}

WorkingDaysErrors ==
  {Err("RangeError", "workingDays must be a non-empty array"),
   Err("RangeError", "workingDays must contain integers between 0 and 6")}

HolidaysErrors == {Err("TypeError", "holidays must be an array")}

\* the errors of the rules from the time values on
ErrorsAfterTimes ==
  IF EndNotAfterStart THEN OrderErrors
  ELSE IF WorkingDaysBad THEN WorkingDaysErrors
  ELSE IF HolidaysBad THEN HolidaysErrors
  ELSE {NoError}

\* the lowest-numbered rule that fails, over both time fields at once
ErrorsRuleByRule ==
  IF ShapeBad(RawStart) \/ ShapeBad(RawEnd) THEN FormatErrors
  ELSE IF ValueBad(RawStart) \/ ValueBad(RawEnd) THEN ValueErrors
  ELSE ErrorsAfterTimes

\* rules 1 and 2 on startOfDay, then on endOfDay, then the other rules
ErrorsFieldByField ==
  IF ShapeBad(RawStart) THEN FormatErrors
  ELSE IF ValueBad(RawStart) THEN ValueErrors
  ELSE IF ShapeBad(RawEnd) THEN FormatErrors
  ELSE IF ValueBad(RawEnd) THEN ValueErrors
  ELSE ErrorsAfterTimes

\* omitted fields take 09:00, 17:00, Monday to Friday and no holidays
DefaultsApplied ==
  LET config == calendarConfig.value
  IN  /\ options.startOfDay.kind = "undefined"
           => config.startHour = 9 /\ config.startMinute = 0
      /\ options.endOfDay.kind = "undefined"
           => config.endHour = 17 /\ config.endMinute = 0
      /\ options.workingDays.kind = "undefined"
           => config.workingDays = <<Num(1), Num(2), Num(3), Num(4), Num(5)>>
      /\ options.holidays.kind = "undefined" => config.holidays = <<>>

\* C14 as stated: the error raised is that of the lowest-numbered rule that
\* is violated (1 shape, 2 hour and minute, 3 end after start, 4 workingDays,
\* 5 holidays), and omitted fields take the defaults.
C14_LowestRuleFirst ==
  calendarConfig.kind # "none"
    => /\ calendarConfig.error \in ErrorsRuleByRule
       /\ calendarConfig.kind = "return" => DefaultsApplied

\* C14 amended: the checks run in the order shape of startOfDay, hour and
\* minute of startOfDay, shape of endOfDay, hour and minute of endOfDay, end
\* after start, workingDays, holidays; the first that fails is the error
\* raised, each rule with its own error, and omitted fields take the
\* defaults.
C14_ValidationOrder ==
  calendarConfig.kind # "none"
    => /\ calendarConfig.error \in ErrorsFieldByField
       /\ calendarConfig.kind = "throw" <=> calendarConfig.error # NoError
       /\ calendarConfig.kind = "return" => DefaultsApplied

\* C14 witness: the end is not after the start, workingDays is empty and
\* holidays is no array; the error raised is the one of rule 3
C14_Witness ==
  /\ calendarConfig.kind = "throw"
  /\ ~ShapeBad(RawStart) /\ ~ShapeBad(RawEnd)
  /\ ~ValueBad(RawStart) /\ ~ValueBad(RawEnd)
  /\ EndNotAfterStart /\ WorkingDaysBad /\ HolidaysBad
  /\ calendarConfig.error \in OrderErrors

\* C15: every configuration the normalizer returns has start and end within
\* 0..1439 minutes of day, the end strictly after the start, and workingDays
\* non-empty with integers 0..6 only; equal start and end is rejected with
\* a range error.
C15_ConfigInvariant ==
  /\ calendarConfig.kind = "return"
       => LET config == calendarConfig.value
              startMinutes == config.startHour * 60 + config.startMinute
              endMinutes == config.endHour * 60 + config.endMinute
          IN  /\ config.startHour \in 0..23 /\ config.startMinute \in 0..59
              /\ config.endHour \in 0..23 /\ config.endMinute \in 0..59
              /\ startMinutes \in 0..1439 /\ endMinutes \in 0..1439
              /\ endMinutes > startMinutes
              /\ config.workingDays # <<>>
              /\ \A i \in 1..Len(config.workingDays) :
                   config.workingDays[i].int /\ config.workingDays[i].v \in 0..6
  /\ (calendarConfig.kind # "none"
        /\ options.startOfDay = Str(<<"0", "9", ":", "0", "0">>)
        /\ options.endOfDay = Str(<<"0", "9", ":", "0", "0">>))
       => /\ calendarConfig.kind = "throw"
          /\ calendarConfig.error.class = "RangeError"

\* C15 witness: "09:00"/"09:00" with everything else valid is rejected
C15_Witness ==
  /\ options.startOfDay = Str(<<"0", "9", ":", "0", "0">>)
  /\ options.endOfDay = Str(<<"0", "9", ":", "0", "0">>)
  /\ ~WorkingDaysBad /\ ~HolidaysBad
  /\ calendarConfig = Thrown(Err("RangeError", "End of day must be after start of day"),
                             Failed(NoError))

AdvanceLimitError ==
  Err("RangeError", "Unable to find working time within reasonable range")

IterationLimitError ==
  Err("RangeError", "Exceeded maximum iterations while adding business hours")

\* the weekdays and the holiday days of the calendar the walk uses
WalkWeekdays == {normalized.workingDays[i].v : i \in 1..Len(normalized.workingDays)}

WalkHolidayDays ==
  {normalized.holidays[i].day :
     i \in {j \in 1..Len(normalized.holidays) : ~normalized.holidays[j].nan}}

\* no working non-holiday day of the calendar in use among the first n days
\* from the day of t on, in the direction of travel
NoBusinessDayWithin(t, dir, n) ==
  \E weekdays \in {WalkWeekdays}, holidayDays \in {WalkHolidayDays} :
    \A k \in 0..(n - 1) :
      ((t.day + k * dir) % 7) \notin weekdays \/ (t.day + k * dir) \in holidayDays

Snapping == pc \in {"moveLoop", "moveExit"}

\* C16: a snap that starts where no working non-holiday day lies within the
\* 366 days of the horizon in the direction of travel makes at most 366
\* passes and can only end with the advance-limit RangeError: it never
\* hands an instant back.
C16_AdvanceLimit ==
  [][(Snapping /\ NoBusinessDayWithin(heap[currentDate], direction, maxAttempts))
       => /\ attempts' <= maxAttempts
          /\ pc' \in {"moveLoop", "thrown"}
          /\ attempts = maxAttempts => pc' = "thrown"
          /\ pc' = "thrown" => outcome' = Thrown(AdvanceLimitError, NullRef)]_vars

\* C16 witness: after a first day's work the next snap found a year of
\* holidays and the call ended with the advance-limit error on pass 366
C16_Witness ==
  /\ pc = "thrown" /\ outcome = Thrown(AdvanceLimitError, NullRef)
  /\ attempts = maxAttempts /\ iterations = 1
  /\ ~NoBusinessDayWithin(heap[date], direction, 1)
  /\ NoBusinessDayWithin(addDays(heap[date], 1), direction, maxAttempts)

\* a call that gets to the walk on a valid calendar without holidays
WalkWithoutHolidays ==
  /\ amount.kind = "finite" /\ amount.ms # 0
  /\ ~heap[date].nan
  /\ ValidConfig
  /\ Len(Config.holidays) = 0

windowLengthMs == (endMinuteOfDay - startMinuteOfDay) * MsPerMinute

\* the daily work windows it takes to hold the amount
WindowsSpanned == (Abs(amount.ms) + windowLengthMs - 1) \div windowLengthMs

LimitErrors == {Thrown(AdvanceLimitError, NullRef), Thrown(IterationLimitError, NullRef)}

WithinCalled == within.kind # "none"

IntervalCalled == hours.ac.kind # "none"

AddEnded == pc \in {"done", "thrown"}

\* the arguments alone end the call: at the checks that come before the options
WithinArgumentExit == a.nan

IntervalArgumentExit == a.nan \/ c.nan \/ isAfter(a, c)

AddArgumentExit == heap[date].nan \/ amount.kind # "finite" \/ amount.ms = 0

\* C18 as stated: every call normalizes the options exactly once, before any
\* calendar evaluation, and no call with an invalid configuration produces
\* a result.
C18_NormalizedInEveryCall ==
  /\ WithinCalled =>
       /\ calls.within.normalize = 1 /\ ~calls.within.early
       /\ ~ValidConfig => within.kind = "throw"
  /\ IntervalCalled =>
       /\ calls.interval.normalize = 1 /\ ~calls.interval.early
       /\ ~ValidConfig => hours.ac.kind = "throw"
  /\ AddEnded =>
       /\ calls.add.normalize = 1 /\ ~calls.add.early
       /\ ~ValidConfig => pc = "thrown"

\* what the call summarized by s did, given whether its arguments end it
\* before the options are looked at
NormalizedOnceFirst(s, argumentExit) ==
  IF argumentExit THEN s = NoCalls
  ELSE /\ s.normalize = 1
       /\ ~s.early
       /\ ~ValidConfig => ~s.calendar

\* C18: no call normalizes the options more than once or evaluates a
\* weekday, holiday or work window before the normalization.  A call that
\* its arguments end at once (an invalid instant, an invalid interval, an
\* invalid or zero amount) never looks at the options, whatever they are;
\* every other call normalizes exactly once and, when the configuration is
\* invalid, raises the configuration error with no calendar evaluation made.
C18_NormalizeOnceFirst ==
  /\ \A e \in {"within", "interval", "add"} :
       /\ calls[e].normalize <= 1
       /\ ~calls[e].early
       /\ calls[e].calendar => calls[e].normalize = 1
  /\ WithinCalled =>
       /\ NormalizedOnceFirst(calls.within, WithinArgumentExit)
       /\ (~WithinArgumentExit /\ ~ValidConfig) => within = Thrown(Config.error, FALSE)
       /\ WithinArgumentExit => within = Returned(FALSE)
  /\ IntervalCalled =>
       /\ NormalizedOnceFirst(calls.interval, IntervalArgumentExit)
       /\ (~IntervalArgumentExit /\ ~ValidConfig) =>
            hours.ac = Thrown(Config.error, NoTotal)
       /\ IntervalArgumentExit =>
            hours.ac.kind = "throw" /\ hours.ac.error # Config.error
  /\ AddEnded =>
       /\ NormalizedOnceFirst(calls.add, AddArgumentExit)
       /\ (~AddArgumentExit /\ ~ValidConfig) => outcome = Thrown(Config.error, NullRef)
       /\ AddArgumentExit => pc = "done"

\* C18 witness: a walk over several work windows ended with the options
\* normalized once, before the calendar evaluations of its passes
C18_Witness ==
  /\ pc = "done" /\ ~AddArgumentExit
  /\ iterations >= 2
  /\ calls.add = CallSummary(1, TRUE, FALSE)

WalkWindowStart(d) ==
  [nan |-> FALSE, day |-> d,
   ms |-> (normalized.startHour * 60 + normalized.startMinute) * MsPerMinute]

WalkWindowEnd(d) ==
  [nan |-> FALSE, day |-> d,
   ms |-> (normalized.endHour * 60 + normalized.endMinute) * MsPerMinute]

\* d is a working non-holiday day of the calendar (weekdays, holidayDays)
IsBusinessDay(d, weekdays, holidayDays) == (d % 7) \in weekdays /\ d \notin holidayDays

\* days from the day of t to the first working non-holiday day other than
\* the day of t in the direction dir; 0 when none is within maxAttempts days
DaysToBusinessDay(t, dir, weekdays, holidayDays) ==
  IF \E k \in 1..maxAttempts : IsBusinessDay(t.day + k * dir, weekdays, holidayDays)
  THEN CHOOSE k \in 1..maxAttempts :
         /\ IsBusinessDay(t.day + k * dir, weekdays, holidayDays)
         /\ \A j \in 1..(k - 1) : ~IsBusinessDay(t.day + j * dir, weekdays, holidayDays)
  ELSE 0

\* the working instant nearest to t in the direction dir, how many days away
\* it is, and whether there is one within maxAttempts days
SnapTarget(t, dir, weekdays, holidayDays) ==
  LET onBusinessDay == IsBusinessDay(t.day, weekdays, holidayDays)
      windowStart == WalkWindowStart(t.day)
      windowEnd == WalkWindowEnd(t.day)
      k == DaysToBusinessDay(t, dir, weekdays, holidayDays)
  IN  IF onBusinessDay /\ t.ms >= windowStart.ms /\ t.ms < windowEnd.ms
      THEN [found |-> TRUE, days |-> 0, date |-> t]
      ELSE IF dir > 0
      THEN IF onBusinessDay /\ t.ms < windowStart.ms
           THEN [found |-> TRUE, days |-> 0, date |-> windowStart]
           ELSE [found |-> k > 0, days |-> k, date |-> WalkWindowStart(t.day + k)]
      ELSE IF onBusinessDay /\ t.ms >= windowEnd.ms
           THEN [found |-> TRUE, days |-> 0, date |-> windowEnd]
           ELSE [found |-> k > 0, days |-> k, date |-> WalkWindowEnd(t.day - k)]

StepsPerIteration == maxAttempts + 3

\* the steps a call can still take from the consumption loop after i passes
StepsFromLoop(i) == (maxIterations - i) * StepsPerIteration + 1

\* an upper bound of the steps the call can still take
StepsLeft ==
  CASE pc = "call" -> StepsFromLoop(0) + maxAttempts + 3
    [] pc = "moveEnter" -> StepsFromLoop(iterations) + maxAttempts + 2
    [] pc = "moveLoop" -> StepsFromLoop(iterations) + (maxAttempts - attempts) + 1
    [] pc = "moveExit" -> StepsFromLoop(iterations) + 1
    [] pc = "loop" -> StepsFromLoop(iterations)
    [] OTHER -> 0

ReturnedInstant ==
  pc = "done" /\ outcome.kind = "return" /\ ~heap[outcome.value].nan

InvalidSentinel ==
  pc = "done" /\ outcome.kind = "return" /\ heap[outcome.value].nan

ConfigurationError ==
  pc = "thrown" /\ ~ValidConfig /\ outcome = Thrown(Config.error, NullRef)

AdvanceLimitExceeded == pc = "thrown" /\ outcome = Thrown(AdvanceLimitError, NullRef)

IterationLimitExceeded == pc = "thrown" /\ outcome = Thrown(IterationLimitError, NullRef)

Endings ==
  {k \in 1..5 : CASE k = 1 -> ReturnedInstant
                   [] k = 2 -> InvalidSentinel
                   [] k = 3 -> ConfigurationError
                   [] k = 4 -> AdvanceLimitExceeded
                   [] k = 5 -> IterationLimitExceeded}

\* the call can take its next step
CanStep ==
  CASE pc = "call" ->
         addEntry(toDate(heap[date]), amount, options).kind
           \in {"invalid", "copy", "throw", "walk"}
    [] pc = "moveEnter" -> ENABLED MoveEnter
    [] pc = "moveLoop" -> attempts < maxAttempts \/ ENABLED MoveExit
    [] pc = "moveExit" -> ENABLED MoveExit
    [] pc = "loop" -> ENABLED ConsumePass \/ ENABLED AddReturn
    [] OTHER -> FALSE

\* the counters stay within their limits, a call that has not ended can take
\* a step, and a call that has ended has ended in exactly one of the five ways
BoundedAndClassified ==
  /\ attempts \in 0..maxAttempts
  /\ iterations \in 0..maxIterations
  /\ pc \in {"call", "moveEnter", "moveLoop", "moveExit", "loop", "done", "thrown"}
  /\ StepsLeft >= 0
  /\ IF AddEnded
     THEN Cardinality(Endings) = 1
     ELSE outcome.kind = "none" /\ CanStep

\* C20: every call of addBusinessHours ends after finitely many steps: the
\* number StepsLeft is never negative and every step lowers it, and a call
\* that has not ended can always take a step.  It ends in exactly one of: a
\* returned instant, the invalid sentinel, a configuration error, the
\* advance-limit error, the iteration-limit error; a snap makes at most 366
\* passes and the consumption loop at most 10000.
C20_Terminates ==
  /\ []BoundedAndClassified
  /\ [][StepsLeft' < StepsLeft]_vars

\* C20 witness: a call ended by the iteration limit after 10000 passes of
\* the consumption loop, each followed by a snap
C20_Witness ==
  /\ IterationLimitExceeded
  /\ iterations = maxIterations
  /\ Endings = {5}

\* the time string the options carry: the one field that is not omitted
GivenTimeString ==
  IF options.startOfDay.kind = "string" THEN options.startOfDay.v
  ELSE options.endOfDay.v

\* the fields between the colons, cut without the parser's help
RECURSIVE ColonFields(_)
ColonFields(t) ==
  IF \A i \in 1..Len(t) : t[i] # ":" THEN <<t>>
  ELSE LET i == CHOOSE j \in 1..Len(t) :
                  t[j] = ":" /\ \A k \in 1..(j - 1) : t[k] # ":"
       IN  <<SubSeq(t, 1, i - 1)>> \o ColonFields(SubSeq(t, i + 1, Len(t)))

NumericField(f) == Len(f) > 0 /\ \A i \in 1..Len(f) : f[i] \in Digits

\* exactly two colon-separated fields, each of one or more digits
TwoNumericFields(t) ==
  Len(ColonFields(t)) = 2 /\ \A i \in 1..2 : NumericField(ColonFields(t)[i])

TimeFormatError == Err("RangeError", "Invalid time format")

\* C21: every startOfDay/endOfDay string that is not exactly two
\* colon-separated numeric fields (wrong number of fields, an empty field, a
\* non-numeric field, a field with trailing non-digits) is rejected with the
\* format error: never accepted, never reported as another error
C21_MalformedIsFormatError ==
  (calendarConfig.kind # "none" /\ ~TwoNumericFields(GivenTimeString))
    => calendarConfig = Thrown(TimeFormatError, Failed(NoError))

\* "09:0a" as startOfDay is accepted and read as 09:00
C21_Witness ==
  /\ options.startOfDay = Str(<<"0", "9", ":", "0", "a">>)
  /\ calendarConfig.kind = "return"
  /\ calendarConfig.value.startHour = 9 /\ calendarConfig.value.startMinute = 0

\* the snap loop has just stopped on a valid working instant (the break of
\* lines 598-621)
SnapSucceeded == pc = "moveExit"

\* the consume loop stands at its head with nothing left to consume
WorkCompleted == pc = "loop" /\ remainingMinutes = NoMinutes

\* C22: a limit error is raised only when the work was not completed: an
\* instant the snap reaches on any permitted pass, the 366th included, is
\* used, and when the remaining minutes reach 0 on any permitted iteration,
\* the 10000th included, the instant is returned
C22_LimitOnlyWhenIncomplete ==
  [][/\ SnapSucceeded => (pc' = "loop" /\ heap'[currentDate'] = heap[result])
     /\ WorkCompleted => (pc' = "done" /\ outcome'.kind = "return")]_vars

\* the snap stops on a valid working instant on its last permitted pass
C22_Witness ==
  /\ SnapSucceeded
  /\ attempts = maxAttempts
  /\ IsBusinessDay(heap[result].day, WalkWeekdays, WalkHolidayDays)
  /\ heap[result].ms >= WalkWindowStart(heap[result].day).ms
  /\ heap[result].ms <= WalkWindowEnd(heap[result].day).ms

\* both calls of the round trip have returned: a is the instant d the first
\* call started from, amount the amount -h of the second call
RoundTripReturned ==
  /\ pc = "done" /\ b # InvalidDate
  /\ amount.ms # 0
  /\ withinChecks(a, normalized) = Returned(TRUE)

\* C23 as stated: for every instant d within business hours, the window
\* start included, and every non-zero amount h of either sign,
\* addBusinessHours(addBusinessHours(d, h), -h) is value-equal to d
C23_RoundTripAlways == RoundTripReturned => heap[outcome.value] = a

\* d is the first instant of its work window
AtWindowStart(d) == d.ms = WalkWindowStart(d.day).ms

\* the end of the work window of the last business day before day d
PreviousWindowEnd(d, weekdays, holidayDays) ==
  WalkWindowEnd(d - DaysToBusinessDay(DateOf(d, 0), 0 - 1, weekdays, holidayDays))

\* C23: the round trip gives d back for every positive amount, and for every
\* negative amount when d is after the start of its window; from the window
\* start a negative amount and its inverse end at the close of the previous
\* business day
C23_RoundTrip ==
  RoundTripReturned =>
    IF amount.ms > 0 /\ AtWindowStart(a)
    THEN \E weekdays \in {WalkWeekdays}, holidayDays \in {WalkHolidayDays} :
           heap[outcome.value] = PreviousWindowEnd(a.day, weekdays, holidayDays)
    ELSE heap[outcome.value] = a

\* Monday 9 Jan 09:00 minus 5 hours is Friday 12:00, and plus 5 hours again
\* is Friday 17:00
C23_Witness ==
  /\ RoundTripReturned
  /\ a = At(8, 9, 0, 0, 0) /\ amount = Finite(5 * MsPerHour)
  /\ options = DefaultOptions
  /\ b = At(5, 12, 0, 0, 0)
  /\ heap[outcome.value] = At(5, 17, 0, 0, 0)

\* the walk has returned and has been measured
WalkMeasured == pc = "done" /\ hours.ab.kind # "none" /\ amount.ms # 0

\* the amount in hours, as the double passed to addBusinessHours
AmountHours == floatDiv(Abs(amount.ms), MsPerHour)

\* C24 as stated: for every valid instant d, inside or outside working time,
\* and every amount h without a limit error, businessHoursInInterval from d
\* to addBusinessHours(d, h) is h when h > 0, and from addBusinessHours(d, h)
\* to d is -h when h < 0
C24_HoursAgree ==
  WalkMeasured => hours.ab = Returned(Hours(AmountHours, Abs(amount.ms), hours.ab.value.days))

\* C24: the interval between d and the instant returned holds exactly the
\* milliseconds of the amount, and the hours returned are the amount when the
\* amount was consumed in one work window
C24_Agree ==
  WalkMeasured =>
    /\ hours.ab.kind = "return"
    /\ hours.ab.value.ms = Abs(amount.ms)
    /\ iterations = 1 => hours.ab.value.hours = AmountHours

\* Friday 15:01 plus 10 hours is Tuesday 09:01; the hours of the three days
\* add up to a double other than 10
C24_Witness ==
  /\ WalkMeasured
  /\ a = At(5, 15, 1, 0, 0) /\ amount = Finite(10 * MsPerHour)
  /\ b = At(9, 9, 1, 0, 0)
  /\ iterations = 3
  /\ hours.ab.kind = "return"
  /\ hours.ab.value.ms = 10 * MsPerHour
  /\ hours.ab.value.hours # AmountHours

\* t lies on a working non-holiday day of the calendar in use, inside the
\* closed work window of that day
InClosedWindow(t) ==
  /\ ~t.nan
  /\ IsBusinessDay(t.day, WalkWeekdays, WalkHolidayDays)
  /\ WalkWindowStart(t.day).ms <= t.ms /\ t.ms <= WalkWindowEnd(t.day).ms

\* a walk has returned: valid start, finite non-zero amount
WalkReturned == Walked /\ amount.ms # 0 /\ outcome.kind = "return"

\* the consume loop stands at its head
AtLoopHead == pc = "loop"

\* the available minutes of lines 654-659 at the current instant, in milliseconds
AvailableAtLoopHead ==
  IF direction > 0
  THEN WalkWindowEnd(heap[currentDate].day).ms - heap[currentDate].ms
  ELSE heap[currentDate].ms - WalkWindowStart(heap[currentDate].day).ms

\* C25 as stated: every instant returned for a valid start and a finite
\* non-zero amount lies on a working non-holiday day, in (windowStart,
\* windowEnd] for a positive amount and in [windowStart, windowEnd) for a
\* negative one; at the head of every consume-loop iteration the current
\* instant is inside the closed window of a working non-holiday day, and the
\* available minutes are not negative
C25_HalfOpenWindow ==
  /\ WalkReturned =>
       \E r \in {heap[outcome.value]} :
         /\ InClosedWindow(r)
         /\ amount.ms > 0 => r.ms > WalkWindowStart(r.day).ms
         /\ amount.ms < 0 => r.ms < WalkWindowEnd(r.day).ms
  /\ AtLoopHead => (InClosedWindow(heap[currentDate]) /\ AvailableAtLoopHead >= 0)

\* C25: every instant returned lies inside the closed work window of a
\* working non-holiday day, off the window start for a positive amount and
\* off the window end for a negative one when amount * 60 has no rounding
\* excess; at the head of every consume-loop iteration the current instant
\* is inside such a window and the available minutes are not negative
C25_ClosedWindow ==
  /\ WalkReturned =>
       \E r \in {heap[outcome.value]} :
         /\ InClosedWindow(r)
         /\ (amount.ms > 0 /\ amount.excess = 0) => r.ms > WalkWindowStart(r.day).ms
         /\ (amount.ms < 0 /\ amount.excess = 0) => r.ms < WalkWindowEnd(r.day).ms
  /\ AtLoopHead => (InClosedWindow(heap[currentDate]) /\ AvailableAtLoopHead >= 0)

\* Friday 16:29 plus 31/60 hours: the 31 minutes to the window end are less
\* than the rounded 31.000000000000004, and the walk returns Monday 09:00
C25_Witness ==
  /\ WalkReturned
  /\ heap[date] = At(5, 16, 29, 0, 0)
  /\ amount = FiniteRoundedUp(31 * MsPerMinute)
  /\ options = DefaultOptions
  /\ heap[outcome.value] = At(8, 9, 0, 0, 0)
  /\ iterations = 2

====
